---- MODULE Spec2Model ----
(***************************************************************************)
(* FileGPT backend: the self-correcting RAG workflow (rag_workflow.py),    *)
(* the batch document grader (rag_grader.py), the query transformer        *)
(* (rag_query_transformer.py), the Ollama health monitor / circuit breaker *)
(* (ollama_monitor.py) and the rate limiter (rate_limiter.py).             *)
(***************************************************************************)
EXTENDS Integers, Sequences, FiniteSets, TLC

(* ---------------------------------------------------------------------- *)
(* Bounds of the model                                                     *)
(* ---------------------------------------------------------------------- *)
\* largest k a caller passes to the workflow (documents retrieved <= k)
MaxK == 6
\* longest decision list a model reply carries
MaxReplyLen == 3
\* most bare RELEVANT / NOT_RELEVANT tokens in a model reply that is not JSON
MaxTokens == 2
\* supersteps the graph runtime executes before it gives up on a run
RecursionLimit == 25

(* ---------------------------------------------------------------------- *)
(* Program constants                                                       *)
(* ---------------------------------------------------------------------- *)
\* DocumentGrader.batch_size
batch_size == 5
\* RAGState.max_attempts
max_attempts == 3

None == "None"

Min(a, b) == IF a < b THEN a ELSE b

\* the sequence n, n+1, ..., m
Range(n, m) == [i \in 1..(m - n + 1) |-> n + i - 1]

\* all sequences over S of length lo..hi
SeqsOf(S, lo, hi) == UNION {[1..n -> S] : n \in lo..hi}

(* ---------------------------------------------------------------------- *)
(* Text: a string is a sequence of characters                              *)
(* ---------------------------------------------------------------------- *)
IsSpace(c) == c = " "

RECURSIVE LStrip(_)
LStrip(s) == IF s # <<>> /\ IsSpace(Head(s)) THEN LStrip(Tail(s)) ELSE s

RECURSIVE RStrip(_)
RStrip(s) ==
    IF s # <<>> /\ IsSpace(s[Len(s)]) THEN RStrip(SubSeq(s, 1, Len(s) - 1)) ELSE s

\* str.strip()
Strip(s) == RStrip(LStrip(s))

\* the user's question
UserQuery == <<"a">>

\* what the model runtime may answer to a rewrite request ("error" = the call raised)
TransformerTexts ==
    {<<>>, <<" ">>, <<"a">>, <<" ", "a">>, <<"b">>, <<"b", " ">>}

TransformerReplies ==
    {[ok |-> TRUE, content |-> t] : t \in TransformerTexts}
        \cup {[ok |-> FALSE, content |-> <<>>]}

(* ---------------------------------------------------------------------- *)
(* Document grader                                                         *)
(* ---------------------------------------------------------------------- *)
Decisions == {"RELEVANT", "NOT_RELEVANT"}

\* A reply of the model runtime to one grading prompt, by what the parser
\* can see in it:
\*   error  - ollama.chat raised
\*   json   - the text is a JSON array of strings (list)
\*   doc    - the text has "DOC <n>: <decision>" matches (pairs, in order)
\*   tokens - the text has bare RELEVANT / NOT_RELEVANT tokens; alone[i] says
\*            whether token i stands alone on its line / comma field
\*   text   - none of the above
GraderReplies ==
    {[kind |-> "error"], [kind |-> "text"]}
        \cup {[kind |-> "json", list |-> l] : l \in SeqsOf(Decisions, 0, MaxReplyLen)}
        \cup {[kind |-> "doc", pairs |-> p] :
                p \in SeqsOf((1..MaxReplyLen) \X Decisions, 1, 2)}
        \cup {[kind |-> "tokens", toks |-> t] :
                t \in SeqsOf(Decisions \X BOOLEAN, 1, MaxTokens)}

\* strategy 2: decisions array sized to the batch, default NOT_RELEVANT,
\* overwritten by each in-range "DOC n" match in order of appearance
RECURSIVE ApplyDocPairs(_, _)
ApplyDocPairs(temp, pairs) ==
    IF pairs = <<>> THEN temp
    ELSE LET idx == Head(pairs)[1]
             dec == Head(pairs)[2]
         IN  ApplyDocPairs(
                IF idx >= 1 /\ idx <= Len(temp) THEN [temp EXCEPT ![idx] = dec] ELSE temp,
                Tail(pairs))

\* strategy 4: the tokens that are a whole line (or comma/semicolon field), in order
RECURSIVE SelectAlone(_)
SelectAlone(toks) ==
    IF toks = <<>> THEN <<>>
    ELSE IF Head(toks)[2] THEN <<Head(toks)[1]>> \o SelectAlone(Tail(toks))
         ELSE SelectAlone(Tail(toks))

\* decisions = None
NoDecisions == <<"None">>

\* the parsing cascade of grade_documents for a batch of n documents
parse_decisions(reply, n) ==
    IF reply.kind = "json" THEN reply.list
    ELSE IF reply.kind = "doc"
         THEN ApplyDocPairs([i \in 1..n |-> "NOT_RELEVANT"], reply.pairs)
    ELSE IF reply.kind = "tokens"
         THEN IF Len(reply.toks) = n
              THEN [i \in 1..n |-> reply.toks[i][1]]
              ELSE IF Len(SelectAlone(reply.toks)) = n
                   THEN SelectAlone(reply.toks)
                   ELSE NoDecisions
    ELSE NoDecisions

RECURSIVE FilterRelevant(_, _)
FilterRelevant(batch, decisions) ==
    IF batch = <<>> THEN <<>>
    ELSE (IF Head(decisions) = "RELEVANT" THEN <<Head(batch)>> ELSE <<>>)
            \o FilterRelevant(Tail(batch), Tail(decisions))

\* one iteration of the batch loop: the documents of the batch that go to filtered_docs
grade_batch(batch, reply) ==
    IF reply.kind = "error" THEN batch
    ELSE LET decisions == parse_decisions(reply, Len(batch))
         IN  IF decisions = NoDecisions \/ Len(decisions) # Len(batch)
             THEN batch
             ELSE FilterRelevant(batch, decisions)

\* number of model calls grade_documents makes for n documents
NumBatches(n) == (n + batch_size - 1) \div batch_size

\* the b-th batch (1-based) of documents
BatchOf(documents, b) ==
    SubSeq(documents, (b - 1) * batch_size + 1, Min(b * batch_size, Len(documents)))

RECURSIVE GradeFrom(_, _, _)
GradeFrom(documents, replies, b) ==
    IF b > NumBatches(Len(documents)) THEN <<>>
    ELSE grade_batch(BatchOf(documents, b), replies[b])
            \o GradeFrom(documents, replies, b + 1)

\* DocumentGrader.grade_documents: replies[b] is the model's reply to batch b
grade_documents(documents, replies) ==
    IF documents = <<>> THEN <<>> ELSE GradeFrom(documents, replies, 1)

(* ---------------------------------------------------------------------- *)
(* Query transformer                                                       *)
(* ---------------------------------------------------------------------- *)
\* QueryTransformer.transform_query: the rewritten query, or None
transform_query(original_query, reply) ==
    IF ~reply.ok THEN <<None>>
    ELSE LET transformed == Strip(reply.content)
         IN  IF transformed # <<>> /\ transformed # original_query
             THEN transformed
             ELSE <<None>>

(* ---------------------------------------------------------------------- *)
(* Self-correcting workflow: the nodes as functions of the state dict      *)
(* ---------------------------------------------------------------------- *)
CouldntFind == "I couldn't find any relevant files to answer your question."
ErrorAnswer == "Error generating answer: <exception text>"
ModelAnswer == "<answer text of the model>"

NoResult == [answer |-> None, sources |-> <<>>, retrieved |-> 0, graded |-> 0, attempts |-> 0]

\* RAGState(query, k).to_dict(); _retry_retrieve is absent from the dict (falsy)
RAGState(query, k) ==
    [query |-> query, k |-> k, documents |-> <<>>, graded_documents |-> <<>>,
     should_generate |-> FALSE, transformed_query |-> <<None>>, retrieval_count |-> 0,
     generation_result |-> NoResult, attempts |-> 0, max_attempts |-> max_attempts,
     retry_retrieve |-> FALSE]

\* the query retrieve_node passes to hybrid_search
query_to_use(st) ==
    IF st.transformed_query # <<None>> /\ st.transformed_query # <<>>
    THEN st.transformed_query ELSE st.query

\* what hybrid_search(query, k) can return here: at most k documents
RetrievalResults(k) == {Range(1, n) : n \in 0..k}

retrieve_node(st, documents) ==
    [st EXCEPT !.documents = documents, !.retrieval_count = Len(documents)]

grade_node(st, replies) ==
    IF st.documents = <<>>
    THEN [st EXCEPT !.graded_documents = <<>>]
    ELSE [st EXCEPT !.graded_documents = grade_documents(st.documents, replies)]

decide_node(st) ==
    [st EXCEPT !.should_generate = (Len(st.graded_documents) > 0)]

transform_query_node(st, reply) ==
    IF st.should_generate \/ st.attempts >= st.max_attempts
    THEN st
    ELSE LET new_query == transform_query(st.query, reply)
         IN  IF new_query # <<None>>
             THEN [st EXCEPT !.transformed_query = new_query,
                             !.attempts = st.attempts + 1,
                             !.retry_retrieve = TRUE]
             ELSE [st EXCEPT !.should_generate = TRUE]

\* generate_node on the retrieved documents, graded or not
docs_to_use_retrieved(st) == st.documents

\* the documents generate_node builds its context and its sources from
docs_to_use(st) ==
    IF st.graded_documents # <<>> THEN st.graded_documents ELSE st.documents

\* what ollama.chat does in generate_node: an answer text (stripped), or it raises
GenerateReplies ==
    {[ok |-> TRUE, content |-> <<"a">>], [ok |-> TRUE, content |-> <<" ">>],
     [ok |-> FALSE, content |-> <<>>]}

\* generate_node with the sources list built inside the try block
generate_node_sources_in_try(st, reply) ==
    IF docs_to_use(st) = <<>>
    THEN [st EXCEPT !.generation_result =
            [answer |-> CouldntFind, sources |-> <<>>,
             retrieved |-> st.retrieval_count, graded |-> 0, attempts |-> st.attempts]]
    ELSE [st EXCEPT !.generation_result =
            [answer |-> IF reply.ok
                        THEN (IF Strip(reply.content) = <<>> THEN "" ELSE ModelAnswer)
                        ELSE ErrorAnswer,
             sources |-> IF reply.ok THEN docs_to_use(st) ELSE <<>>,
             retrieved |-> st.retrieval_count,
             graded |-> Len(st.graded_documents),
             attempts |-> st.attempts]]

generate_node(st, reply) ==
    IF docs_to_use(st) = <<>>
    THEN [st EXCEPT !.generation_result =
            [answer |-> CouldntFind, sources |-> <<>>,
             retrieved |-> st.retrieval_count, graded |-> 0, attempts |-> st.attempts]]
    ELSE [st EXCEPT !.generation_result =
            [answer |-> IF reply.ok
                        THEN (IF Strip(reply.content) = <<>> THEN "" ELSE ModelAnswer)
                        ELSE ErrorAnswer,
             sources |-> docs_to_use(st),
             retrieved |-> st.retrieval_count,
             graded |-> Len(st.graded_documents),
             attempts |-> st.attempts]]

\* conditional edge after decide
should_generate(st) == IF st.should_generate THEN "generate" ELSE "transform"

\* after_transform with the attempt bound off by one
after_transform_off_by_one(st) ==
    IF st.retry_retrieve /\ st.attempts <= st.max_attempts THEN "retrieve" ELSE "generate"

\* conditional edge after transform
after_transform(st) ==
    IF st.retry_retrieve /\ st.attempts < st.max_attempts THEN "retrieve" ELSE "generate"

(* ---------------------------------------------------------------------- *)
(* Health monitor / circuit breaker                                        *)
(* ---------------------------------------------------------------------- *)
\* OllamaConfig
CIRCUIT_BREAKER_THRESHOLD == 5
CIRCUIT_BREAKER_RESET == 300
HEALTH_CHECK_INTERVAL == 30

\* bounds: failures recorded in a row, and the last instant of the clock (seconds)
MaxFailures == 7
MaxNow == 360

\* circuit_open_at = None
NoTime == -1

\* OllamaHealthMonitor.__init__
NewMonitor ==
    [status |-> "healthy", consecutive_failures |-> 0, circuit_open_at |-> NoTime]

\* record_failure with the threshold compared by > instead of >=
record_failure_strict(m, t) ==
    LET n == m.consecutive_failures + 1
    IN  IF n > CIRCUIT_BREAKER_THRESHOLD
        THEN [status |-> "unavailable", consecutive_failures |-> n, circuit_open_at |-> t]
        ELSE IF n > 1
             THEN [m EXCEPT !.status = "degraded", !.consecutive_failures = n]
             ELSE [m EXCEPT !.consecutive_failures = n]

\* OllamaHealthMonitor.record_failure at time t
record_failure(m, t) ==
    LET n == m.consecutive_failures + 1
    IN  IF n >= CIRCUIT_BREAKER_THRESHOLD
        THEN [status |-> "unavailable", consecutive_failures |-> n, circuit_open_at |-> t]
        ELSE IF n > 1
             THEN [m EXCEPT !.status = "degraded", !.consecutive_failures = n]
             ELSE [m EXCEPT !.consecutive_failures = n]

\* record_success without the branch for DEGRADED
record_success_no_degraded(m) ==
    IF m.status = "unavailable"
    THEN [status |-> "healthy", consecutive_failures |-> 0, circuit_open_at |-> NoTime]
    ELSE [m EXCEPT !.consecutive_failures = 0]

\* OllamaHealthMonitor.record_success
record_success(m) ==
    IF m.status = "unavailable"
    THEN [status |-> "healthy", consecutive_failures |-> 0, circuit_open_at |-> NoTime]
    ELSE IF m.status = "degraded"
         THEN [m EXCEPT !.status = "healthy", !.consecutive_failures = 0]
         ELSE [m EXCEPT !.consecutive_failures = 0]

\* OllamaHealthMonitor.is_circuit_open at time t
is_circuit_open(m, t) ==
    IF m.status = "unavailable"
    THEN ~(t - m.circuit_open_at > CIRCUIT_BREAKER_RESET)
    ELSE FALSE

\* is_ollama_available()
is_ollama_available(m, t) == ~is_circuit_open(m, t)

(* ---------------------------------------------------------------------- *)
(* Rate limiter                                                            *)
(* ---------------------------------------------------------------------- *)
\* bounds: clock ticks per second (time.time() is read in ticks of
\* 1/TicksPerSecond s) and the last tick of the limiter's clock
TicksPerSecond == 2
MaxClock == 3

\* RateLimitConfig.LIMITS: "<count>/<window>" per endpoint
LIMITS ==
    [p \in {"/ask_rag", "/organize", "/categorize", "/ask", "/search"} |->
        CASE p = "/ask_rag"    -> [count |-> 1,  window |-> "second"]
          [] p = "/organize"   -> [count |-> 1,  window |-> "second"]
          [] p = "/categorize" -> [count |-> 2,  window |-> "second"]
          [] p = "/ask"        -> [count |-> 5,  window |-> "second"]
          [] p = "/search"     -> [count |-> 10, window |-> "second"]]

\* the requests of the model: remote hosts (NoClient: request.client is None)
\* and URL paths
NoClient == "<no client>"
Hosts == {"10.0.0.1", NoClient}
Paths == {"/ask_rag", "/categorize", "/stats"}

\* the client_ip key dispatch uses
client_ip_of(host) == IF host = NoClient THEN "unknown" ELSE host

ClientIps == {client_ip_of(h) : h \in Hosts}

\* RateLimitStore.__init__: no timestamps for any client and endpoint
NewStore == [c \in ClientIps |-> [e \in DOMAIN LIMITS |-> <<>>]]

\* the window of a limit, in clock ticks
window_ticks(limit) ==
    (IF limit.window = "second" THEN 1
     ELSE IF limit.window = "minute" THEN 60
     ELSE limit.window) * TicksPerSecond

\* the timestamps of times that are after cutoff, in order
RECURSIVE After(_, _)
After(times, cutoff) ==
    IF times = <<>> THEN <<>>
    ELSE (IF Head(times) > cutoff THEN <<Head(times)>> ELSE <<>>)
            \o After(Tail(times), cutoff)

\* is_allowed with the count compared by <= instead of <
is_allowed_one_more(store, client_ip, endpoint, limit, t) ==
    LET cutoff == t - window_ticks(limit)
        valid_requests == After(store[client_ip][endpoint], cutoff)
    IN  IF Len(valid_requests) <= limit.count
        THEN [allowed |-> TRUE,
              store |-> [store EXCEPT ![client_ip][endpoint] = Append(valid_requests, t)]]
        ELSE [allowed |-> FALSE,
              store |-> [store EXCEPT ![client_ip][endpoint] = valid_requests]]

\* is_allowed with one timestamp list per client, shared by its endpoints
is_allowed_per_client(store, client_ip, endpoint, limit, t) ==
    LET cutoff == t - window_ticks(limit)
        valid_requests == After(store[client_ip]["/ask_rag"], cutoff)
    IN  IF Len(valid_requests) < limit.count
        THEN [allowed |-> TRUE,
              store |-> [store EXCEPT ![client_ip]["/ask_rag"] = Append(valid_requests, t)]]
        ELSE [allowed |-> FALSE,
              store |-> [store EXCEPT ![client_ip]["/ask_rag"] = valid_requests]]

\* RateLimitStore.is_allowed at time t: the decision and the store afterwards
is_allowed(store, client_ip, endpoint, limit, t) ==
    LET cutoff == t - window_ticks(limit)
        valid_requests == After(store[client_ip][endpoint], cutoff)
    IN  IF Len(valid_requests) < limit.count
        THEN [allowed |-> TRUE,
              store |-> [store EXCEPT ![client_ip][endpoint] = Append(valid_requests, t)]]
        ELSE [allowed |-> FALSE,
              store |-> [store EXCEPT ![client_ip][endpoint] = valid_requests]]

\* RateLimitMiddleware.dispatch for a request of host on path at time t:
\* the HTTP status (429, or 200 when the request is passed on) and the store
dispatch(store, host, path, t) ==
    LET client_ip == client_ip_of(host)
    IN  IF path \in DOMAIN LIMITS
        THEN LET r == is_allowed(store, client_ip, path, LIMITS[path], t)
             IN  [status |-> IF r.allowed THEN 200 ELSE 429, store |-> r.store]
        ELSE [status |-> 200, store |-> store]

(* ---------------------------------------------------------------------- *)
(* State                                                                   *)
(* ---------------------------------------------------------------------- *)
VARIABLES
    \* workflow run: the state dict, the node about to run, supersteps done
    state, pc, steps,
    \* the queries passed to hybrid_search, in order
    searched,
    \* rewrite requests sent to the model runtime
    transformCalls,
    \* a grading prompt was sent while the circuit breaker was open
    gradedWhileOpen,
    \* every retrieval so far returned no document / every rewrite request
    \* so far produced a new query
    allEmpty, allRewritten,
    \* the model call of generate_node raised
    genFailed,
    \* health monitor, its clock (seconds) and whether the prober's sleep is over
    monitor, now, probe_due,
    \* when the breaker last went from closed to open; failures recorded
    \* since the last recorded success; the last monitor call and the status
    \* it found
    openedAt, failuresSinceSuccess, lastOp,
    \* rate limit store and its clock (ticks)
    requests, clock,
    \* the observed (client_ip, endpoint), a second store that receives only
    \* the observed pair's requests, the admission log of the observed pair,
    \* and the last request handled on it
    obs, shadow, admitted, lastReq,
    \* one call of grade_documents: its arguments and its result
    gDocs, gReplies, gOut, gPhase

VARIABLES
    \* which session store the run exercises; the sessions table of
    \* PersistentSessionStorage; the _sessions dict of SessionManager
    backend, db, mem,
    \* time.time() of the session stores (seconds) and the number of times
    \* it advanced
    sclock, sticks,
    \* messages sent to each session id so far (the next content)
    sent

VARIABLES
    \* the files table of the catalog, the keyword index (corpus and
    \* metadata), the vector index
    catalog, bm25, chroma,
    \* the worker's queues, their sequence counters, and the batch the
    \* worker has collected
    embedding_queue, summary_queue, embedding_seq, summary_seq, batch_items,
    \* runs of the pipeline that stored content (the time of the catalog),
    \* runs that reported a file indexed
    nstores, files_indexed,
    \* what has happened in the run: "same" when the pipeline found the
    \* stored hash, "stale" when the worker took a job of a path without a
    \* catalog row
    seen

VARIABLES
    \* where each thread that runs the pipeline is (the observer's dispatcher
    \* thread and a thread that runs scan_directory), the handler's
    \* _processing set, the observer's queue of created/modified events
    tpc, processing, events,
    \* the file that each path holds on disk
    disk,
    \* events raised and scans started so far
    nevents, nscans

VARIABLES
    \* one call of hybrid_search: what the two branches returned, k, the
    \* list returned, and whether the call has returned
    hs_results, hs_k, hs_out, hs_phase,
    \* the words of the query
    hs_query

wfVars == <<state, pc, steps, searched, transformCalls, gradedWhileOpen,
            allEmpty, allRewritten, genFailed>>
monVars == <<monitor, now, probe_due, openedAt, failuresSinceSuccess, lastOp>>
rlVars == <<requests, clock, obs, shadow, admitted, lastReq>>
grVars == <<gDocs, gReplies, gOut, gPhase>>
ssVars == <<backend, db, mem, sclock, sticks, sent>>
ixVars == <<catalog, bm25, chroma, embedding_queue, summary_queue,
            embedding_seq, summary_seq, batch_items, nstores, files_indexed, seen>>
VARIABLES
    \* the BackgroundWorker's control flags, the threads started so far
    \* (where each is in _worker_loop, with the batch or item it holds), the
    \* Thread object in worker_thread, and where the caller of
    \* start/stop/pause/resume is
    running, paused, wthreads, worker_thread, caller

VARIABLES
    \* the module globals _bm25_corpus, _bm25_metadata and the corpus that
    \* _bm25_index was built from; where each thread that changes them is;
    \* what the last keyword search read; operations begun so far
    bm25_corpus, bm25_metadata, bm25_index, kthreads, kw_hit, nkwops

VARIABLES
    \* the sessions table of the SQLite file, the holder of
    \* PersistentSessionStorage.lock, where each calling thread is (with the
    \* messages it loaded and what it returned), and the table before the calls
    ps_table, ps_lock, pthreads, ps_start

VARIABLES
    \* the holder of OllamaHealthMonitor.lock and where each thread that
    \* calls the monitor is
    mon_lock, mthreads

thVars == <<tpc, processing, events, disk, nevents, nscans>>
hsVars == <<hs_results, hs_k, hs_out, hs_phase, hs_query>>
wkVars == <<running, paused, wthreads, worker_thread, caller>>
kwVars == <<bm25_corpus, bm25_metadata, bm25_index, kthreads, kw_hit, nkwops>>
psVars == <<ps_table, ps_lock, pthreads, ps_start>>
mtVars == <<mon_lock, mthreads>>
lateVars == <<wkVars, kwVars, psVars, mtVars>>
vars == <<wfVars, monVars, rlVars, grVars, ssVars, ixVars, thVars, hsVars, lateVars>>

\* the k of the run: hybrid_search returns at most k documents
Ks == {MaxK}

InitWorkflow ==
    /\ \E k \in Ks : state = RAGState(UserQuery, k)
    /\ pc = "retrieve"
    /\ steps = 0
    /\ searched = <<>>
    /\ transformCalls = 0
    /\ gradedWhileOpen = FALSE
    /\ allEmpty = TRUE
    /\ allRewritten = TRUE
    /\ genFailed = FALSE

InitMonitor ==
    /\ monitor = NewMonitor
    /\ now = 0
    /\ probe_due = TRUE
    /\ openedAt = NoTime
    /\ failuresSinceSuccess = 0
    /\ lastOp = [op |-> "init", was |-> "healthy"]

NoRequest == [host |-> NoClient, path |-> "/stats", at |-> 0, status |-> 0, before |-> 0,
              shadow_status |-> 0]

LimitedKeys == ClientIps \X (Paths \cap DOMAIN LIMITS)

InitLimiter ==
    /\ requests = NewStore
    /\ clock = 0
    /\ obs \in LimitedKeys
    /\ shadow = NewStore
    /\ admitted = <<>>
    /\ lastReq = NoRequest

InitGrader ==
    /\ gDocs \in RetrievalResults(MaxK)
    /\ gReplies \in [1..NumBatches(Len(gDocs)) -> GraderReplies]
    /\ gOut = <<>>
    /\ gPhase = "call"

\* the monitor after n calls of record_failure at time 0
RECURSIVE FailedMonitor(_)
FailedMonitor(n) == IF n = 0 THEN NewMonitor ELSE record_failure(FailedMonitor(n - 1), 0)

\* the monitor with the breaker just opened by CIRCUIT_BREAKER_THRESHOLD
\* failures in a row
InitOpenMonitor ==
    /\ monitor = FailedMonitor(CIRCUIT_BREAKER_THRESHOLD)
    /\ now = 0
    /\ probe_due = TRUE
    /\ openedAt = 0
    /\ failuresSinceSuccess = CIRCUIT_BREAKER_THRESHOLD
    /\ lastOp = [op |-> "record_failure", was |-> "degraded"]

\* the parts a specification does not exercise stay in their initial state
IdleWorkflow == state = RAGState(UserQuery, MaxK) /\ pc = "retrieve" /\ steps = 0
                    /\ searched = <<>> /\ transformCalls = 0 /\ gradedWhileOpen = FALSE
                    /\ allEmpty = TRUE /\ allRewritten = TRUE /\ genFailed = FALSE
IdleLimiter == requests = NewStore /\ clock = 0 /\ obs = <<"unknown", "/ask_rag">>
                    /\ shadow = NewStore /\ admitted = <<>> /\ lastReq = NoRequest
IdleGrader == gDocs = <<>> /\ gReplies = <<>> /\ gOut = <<>> /\ gPhase = "call"

\* no session: a session id without a row, the session ids in use
Absent == [absent |-> TRUE]
SessionIds == {"s1", "s2"}
NoSessions == [s \in SessionIds |-> Absent]
IdleSessions ==
    /\ backend = "sqlite" /\ db = NoSessions /\ mem = NoSessions
    /\ sclock = 0 /\ sticks = 0
    /\ sent = [s \in SessionIds |-> 0]

\* nothing on disk, nothing indexed
IdleIngest ==
    /\ catalog = [p \in {"/d/a.txt", "/d/b.pdf"} |-> Absent]
    /\ bm25 = <<>> /\ chroma = {}
    /\ embedding_queue = {} /\ summary_queue = {}
    /\ embedding_seq = 0 /\ summary_seq = 0
    /\ batch_items = <<>>
    /\ nstores = 0 /\ files_indexed = 0
    /\ seen = {}

\* no thread in the pipeline, no event raised
IdleThread == [at |-> "idle"]
ThreadIds == {"watcher", "scanner"}
IdleThreads ==
    /\ tpc = [t \in ThreadIds |-> IdleThread]
    /\ processing = {} /\ events = <<>>
    /\ disk = [p \in {"/d/a.txt", "/d/b.pdf"} |-> [missing |-> TRUE]]
    /\ nevents = 0 /\ nscans = 0

\* the worker as constructed: not started
MaxThreads == 2
WorkerThreads == 1..MaxThreads
NewThread == [at |-> "new", batch |-> <<>>]
IdleWorker ==
    /\ running = FALSE /\ paused = FALSE
    /\ wthreads = [t \in WorkerThreads |-> NewThread]
    /\ worker_thread = 0
    /\ caller = "idle"

\* empty keyword index, no thread inside a change of it
KwThreads == {"watcher", "scanner"}
IdleKwThread == [at |-> "idle"]
NoHit == [none |-> TRUE]
IdleKeyword ==
    /\ bm25_corpus = <<>> /\ bm25_metadata = <<>> /\ bm25_index = <<>>
    /\ kthreads = [t \in KwThreads |-> IdleKwThread]
    /\ kw_hit = NoHit
    /\ nkwops = 0

\* no thread in a call of the persistent session store
MaxPsThreads == 2
PsThreads == 1..MaxPsThreads
IdlePsThread == [at |-> "idle", op |-> "none", messages |-> <<>>, result |-> <<>>]
IdlePersistent ==
    /\ ps_table = NoSessions /\ ps_start = NoSessions
    /\ ps_lock = 0
    /\ pthreads = [t \in PsThreads |-> IdlePsThread]

\* no thread in a call of the health monitor
MonThreads == {"prober", "request"}
IdleMonThread == [at |-> "idle", stamp |-> NoTime, open |-> FALSE]
IdleMonitorThreads ==
    /\ mon_lock = "free"
    /\ mthreads = [t \in MonThreads |-> IdleMonThread]

IdleLate == IdleWorker /\ IdleKeyword /\ IdlePersistent /\ IdleMonitorThreads

\* no search call
IdleSearch ==
    /\ hs_results = <<>> /\ hs_k = 0 /\ hs_out = <<>> /\ hs_phase = "call"
    /\ hs_query = <<>>

(* ---------------------------------------------------------------------- *)
(* Workflow run: one action per graph node                                 *)
(* ---------------------------------------------------------------------- *)
Running == pc \notin {"done", "aborted"} /\ steps < RecursionLimit

Retrieve ==
    /\ Running /\ pc = "retrieve"
    /\ \E documents \in RetrievalResults(state.k) :
        /\ state' = retrieve_node(state, documents)
        /\ allEmpty' = (allEmpty /\ documents = <<>>)
    /\ searched' = Append(searched, query_to_use(state))
    /\ pc' = "grade"
    /\ steps' = steps + 1
    /\ UNCHANGED <<transformCalls, gradedWhileOpen, allRewritten, genFailed>>
    /\ UNCHANGED <<monVars, rlVars, grVars, ssVars, ixVars, thVars, hsVars, lateVars>>

Grade ==
    /\ Running /\ pc = "grade"
    /\ \E replies \in [1..NumBatches(Len(state.documents)) -> GraderReplies] :
        state' = grade_node(state, replies)
    /\ gradedWhileOpen' =
        (gradedWhileOpen \/ (state.documents # <<>> /\ is_circuit_open(monitor, now)))
    /\ pc' = "decide"
    /\ steps' = steps + 1
    /\ UNCHANGED <<searched, transformCalls, allEmpty, allRewritten, genFailed>>
    /\ UNCHANGED <<monVars, rlVars, grVars, ssVars, ixVars, thVars, hsVars, lateVars>>

Decide ==
    /\ Running /\ pc = "decide"
    /\ state' = decide_node(state)
    /\ pc' = should_generate(state')
    /\ steps' = steps + 1
    /\ UNCHANGED <<searched, transformCalls, gradedWhileOpen, allEmpty, allRewritten,
                   genFailed>>
    /\ UNCHANGED <<monVars, rlVars, grVars, ssVars, ixVars, thVars, hsVars, lateVars>>

\* transform_query_node calls the model unless it returns early
TransformerCalled(st) == ~(st.should_generate \/ st.attempts >= st.max_attempts)

Transform ==
    /\ Running /\ pc = "transform"
    /\ \E reply \in TransformerReplies :
        /\ state' = transform_query_node(state, reply)
        /\ allRewritten' =
            (allRewritten /\ (TransformerCalled(state)
                                => transform_query(state.query, reply) # <<None>>))
    /\ transformCalls' = transformCalls + (IF TransformerCalled(state) THEN 1 ELSE 0)
    /\ pc' = after_transform(state')
    /\ steps' = steps + 1
    /\ UNCHANGED <<searched, gradedWhileOpen, allEmpty, genFailed>>
    /\ UNCHANGED <<monVars, rlVars, grVars, ssVars, ixVars, thVars, hsVars, lateVars>>

Generate ==
    /\ Running /\ pc = "generate"
    /\ \E reply \in GenerateReplies :
        /\ state' = generate_node(state, reply)
        /\ genFailed' = (docs_to_use(state) # <<>> /\ ~reply.ok)
    /\ pc' = "done"
    /\ steps' = steps + 1
    /\ UNCHANGED <<searched, transformCalls, gradedWhileOpen, allEmpty, allRewritten>>
    /\ UNCHANGED <<monVars, rlVars, grVars, ssVars, ixVars, thVars, hsVars, lateVars>>

\* the graph runtime stops a run that has not reached END within its step limit
Abort ==
    /\ pc \notin {"done", "aborted"} /\ steps >= RecursionLimit
    /\ pc' = "aborted"
    /\ UNCHANGED <<state, steps, searched, transformCalls, gradedWhileOpen, allEmpty,
                   allRewritten, genFailed>>
    /\ UNCHANGED <<monVars, rlVars, grVars, ssVars, ixVars, thVars, hsVars, lateVars>>

(* ---------------------------------------------------------------------- *)
(* Health monitor calls                                                    *)
(* ---------------------------------------------------------------------- *)
\* the ghost bookkeeping of a monitor call that leaves the monitor as m
Opened(m) ==
    IF m.status # "unavailable" THEN NoTime
    ELSE IF monitor.status # "unavailable" THEN now
    ELSE openedAt

FailureStep ==
    /\ monitor.consecutive_failures < MaxFailures
    /\ monitor' = record_failure(monitor, now)
    /\ openedAt' = Opened(monitor')
    /\ failuresSinceSuccess' = failuresSinceSuccess + 1
    /\ lastOp' = [op |-> "record_failure", was |-> monitor.status]

SuccessStep ==
    /\ monitor' = record_success(monitor)
    /\ openedAt' = Opened(monitor')
    /\ failuresSinceSuccess' = 0
    /\ lastOp' = [op |-> "record_success", was |-> monitor.status]

\* record_ollama_failure() from a request thread
RecordOllamaFailure ==
    /\ FailureStep
    /\ UNCHANGED <<now, probe_due>>
    /\ UNCHANGED <<wfVars, rlVars, grVars, ssVars, ixVars, thVars, hsVars, lateVars>>

\* record_ollama_success() from a request thread
RecordOllamaSuccess ==
    /\ SuccessStep
    /\ UNCHANGED <<now, probe_due>>
    /\ UNCHANGED <<wfVars, rlVars, grVars, ssVars, ixVars, thVars, hsVars, lateVars>>

\* one iteration of BackgroundHealthChecker._check_loop, up to its sleep
CheckLoop ==
    /\ probe_due
    /\ \E healthy \in BOOLEAN : IF healthy THEN SuccessStep ELSE FailureStep
    /\ probe_due' = FALSE
    /\ UNCHANGED now
    /\ UNCHANGED <<wfVars, rlVars, grVars, ssVars, ixVars, thVars, hsVars, lateVars>>

\* HEALTH_CHECK_INTERVAL seconds pass; the prober's sleep is over
Tick ==
    /\ now + HEALTH_CHECK_INTERVAL <= MaxNow
    /\ now' = now + HEALTH_CHECK_INTERVAL
    /\ probe_due' = TRUE
    /\ UNCHANGED <<monitor, openedAt, failuresSinceSuccess, lastOp>>
    /\ UNCHANGED <<wfVars, rlVars, grVars, ssVars, ixVars, thVars, hsVars, lateVars>>

(* ---------------------------------------------------------------------- *)
(* Rate limiter requests                                                   *)
(* ---------------------------------------------------------------------- *)
\* limit and window of the observed endpoint
ObsLimit == LIMITS[obs[2]].count
ObsWindow == window_ticks(LIMITS[obs[2]])

\* how many admissions of the log fall in the window that ends at t
InWindow(log, t) == Len(After(log, t - ObsWindow))

Dispatch(host, path) ==
    LET r == dispatch(requests, host, path, clock)
        rs == dispatch(shadow, host, path, clock)
    IN  /\ requests' = r.store
        /\ IF <<client_ip_of(host), path>> = obs
           THEN /\ shadow' = rs.store
                /\ admitted' = IF r.status = 200 THEN Append(admitted, clock) ELSE admitted
                /\ lastReq' = [host |-> host, path |-> path, at |-> clock,
                               status |-> r.status, before |-> InWindow(admitted, clock),
                               shadow_status |-> rs.status]
           ELSE UNCHANGED <<shadow, admitted, lastReq>>
        /\ UNCHANGED <<clock, obs>>
        /\ UNCHANGED <<wfVars, monVars, grVars, ssVars, ixVars, thVars, hsVars, lateVars>>

Request == \E host \in Hosts, path \in Paths : Dispatch(host, path)

TickClock ==
    /\ clock < MaxClock
    /\ clock' = clock + 1
    /\ UNCHANGED <<requests, obs, shadow, admitted, lastReq>>
    /\ UNCHANGED <<wfVars, monVars, grVars, ssVars, ixVars, thVars, hsVars, lateVars>>

(* ---------------------------------------------------------------------- *)
(* One call of the grader                                                  *)
(* ---------------------------------------------------------------------- *)
GradeDocuments ==
    /\ gPhase = "call"
    /\ gOut' = grade_documents(gDocs, gReplies)
    /\ gPhase' = "returned"
    /\ UNCHANGED <<gDocs, gReplies>>
    /\ UNCHANGED <<wfVars, monVars, rlVars, ssVars, ixVars, thVars, hsVars, lateVars>>

(* ---------------------------------------------------------------------- *)
(* Specifications                                                          *)
(* ---------------------------------------------------------------------- *)
\* a workflow run, started with the breaker closed or with the breaker open
Init == InitWorkflow /\ (InitMonitor \/ InitOpenMonitor) /\ IdleLimiter /\ IdleGrader /\ IdleSessions
    /\ IdleIngest /\ IdleThreads /\ IdleSearch /\ IdleLate

Next ==
    \/ Retrieve
    \/ Grade
    \/ Decide
    \/ Transform
    \/ Generate
    \/ Abort

Spec == Init /\ [][Next]_vars

\* the health monitor with its prober and its clock
InitMon == IdleWorkflow /\ InitMonitor /\ IdleLimiter /\ IdleGrader /\ IdleSessions
    /\ IdleIngest /\ IdleThreads /\ IdleSearch /\ IdleLate

NextMon ==
    \/ RecordOllamaFailure
    \/ RecordOllamaSuccess
    \/ CheckLoop
    \/ Tick

SpecMonitor == InitMon /\ [][NextMon]_vars

\* the rate limiter
InitRl == IdleWorkflow /\ InitMonitor /\ InitLimiter /\ IdleGrader /\ IdleSessions
    /\ IdleIngest /\ IdleThreads /\ IdleSearch /\ IdleLate

NextRl ==
    \/ Request
    \/ TickClock

SpecLimiter == InitRl /\ [][NextRl]_vars

\* grade_documents on every input of the bounds
InitGr == IdleWorkflow /\ InitMonitor /\ IdleLimiter /\ InitGrader /\ IdleSessions
    /\ IdleIngest /\ IdleThreads /\ IdleSearch /\ IdleLate

NextGr == GradeDocuments

SpecGrader == InitGr /\ [][NextGr]_vars

(* ---------------------------------------------------------------------- *)
(* Conversation sessions: PersistentSessionStorage (session_storage.py)    *)
(* and SessionManager (session_service.py)                                 *)
(* ---------------------------------------------------------------------- *)
\* SessionConfig
MAX_MESSAGES_PER_SESSION == 10
SESSION_TTL_SECONDS == 86400
\* SessionManager(max_messages=5, ttl_seconds=3600) of get_session_manager
max_messages == 5
ttl_seconds == 3600

\* messages sent, and advances of the clock, in a run
MaxMsgs == 11
MaxSessionTicks == 2

RECURSIVE SumOver(_, _)
SumOver(f, S) ==
    IF S = {} THEN 0
    ELSE LET x == CHOOSE y \in S : TRUE IN f[x] + SumOver(f, S \ {x})

\* messages[-n:]
LastN(messages, n) ==
    IF Len(messages) > n
    THEN SubSeq(messages, Len(messages) - n + 1, Len(messages))
    ELSE messages

\* the stored dict of one message; its timestamp is written and returned,
\* never read by the store, and is left out
Message(role, content, t) == [role |-> role, content |-> content]

\* INSERT OR IGNORE INTO sessions VALUES (session_id, now, now, '[]')
PersistentSessionStorage_create_session(table, session_id, t) ==
    IF table[session_id] = Absent
    THEN [table EXCEPT ![session_id] =
            [created_at |-> t, last_accessed |-> t, messages |-> <<>>]]
    ELSE table

\* add_message without the trim to the last MAX_MESSAGES_PER_SESSION
PersistentSessionStorage_add_message_untrimmed(table, session_id, role, content, t) ==
    LET base == PersistentSessionStorage_create_session(table, session_id, t)
    IN  [base EXCEPT ![session_id] =
            [@ EXCEPT !.messages = Append(base[session_id].messages,
                                          Message(role, content, t)),
                      !.last_accessed = t]]

PersistentSessionStorage_add_message(table, session_id, role, content, t) ==
    LET row == table[session_id]
        base == IF row = Absent
                THEN PersistentSessionStorage_create_session(table, session_id, t)
                ELSE table
        loaded == IF row = Absent THEN <<>> ELSE row.messages
        appended == Append(loaded, Message(role, content, t))
        messages == IF Len(appended) > MAX_MESSAGES_PER_SESSION
                    THEN LastN(appended, MAX_MESSAGES_PER_SESSION)
                    ELSE appended
    IN  [base EXCEPT ![session_id] =
            [@ EXCEPT !.messages = messages, !.last_accessed = t]]

PersistentSessionStorage_get_history(table, session_id, t) ==
    LET row == table[session_id]
    IN  IF row # Absent
        THEN [table |-> [table EXCEPT ![session_id] = [@ EXCEPT !.last_accessed = t]],
              result |-> row.messages]
        ELSE [table |-> table, result |-> <<>>]

\* UPDATE sessions SET messages = '[]', last_accessed = now WHERE session_id = ?
PersistentSessionStorage_clear_session(table, session_id, t) ==
    IF table[session_id] # Absent
    THEN [table EXCEPT ![session_id] =
            [@ EXCEPT !.messages = <<>>, !.last_accessed = t]]
    ELSE table

\* cleanup_expired_sessions with the cutoff included
PersistentSessionStorage_cleanup_inclusive(table, t) ==
    LET cutoff_time == t - SESSION_TTL_SECONDS
    IN  [s \in SessionIds |->
            IF table[s] # Absent /\ table[s].last_accessed <= cutoff_time
            THEN Absent ELSE table[s]]

\* DELETE FROM sessions WHERE last_accessed < cutoff_time
PersistentSessionStorage_cleanup_expired_sessions(table, t) ==
    LET cutoff_time == t - SESSION_TTL_SECONDS
    IN  [s \in SessionIds |->
            IF table[s] # Absent /\ table[s].last_accessed < cutoff_time
            THEN Absent ELSE table[s]]

\* SessionManager.create_session: a fresh uuid with no messages
SessionManager_create_session(sessions, session_id, t) ==
    [sessions EXCEPT ![session_id] = [messages |-> <<>>, last_access |-> t]]

\* add_message that keeps the first max_messages instead of the last
SessionManager_add_message_keep_first(sessions, session_id, role, content, t) ==
    LET base == IF sessions[session_id] = Absent
                THEN SessionManager_create_session(sessions, session_id, t)
                ELSE sessions
        appended == Append(base[session_id].messages, Message(role, content, t))
    IN  [base EXCEPT ![session_id] =
            [messages |-> IF Len(appended) > max_messages
                          THEN SubSeq(appended, 1, max_messages)
                          ELSE appended,
             last_access |-> t]]

SessionManager_add_message(sessions, session_id, role, content, t) ==
    LET base == IF sessions[session_id] = Absent
                THEN [sessions EXCEPT ![session_id] =
                        [messages |-> <<>>, last_access |-> t]]
                ELSE sessions
        appended == Append(base[session_id].messages, Message(role, content, t))
        messages == IF Len(appended) > max_messages
                    THEN LastN(appended, max_messages)
                    ELSE appended
    IN  [base EXCEPT ![session_id] = [messages |-> messages, last_access |-> t]]

SessionManager_get_history(sessions, session_id, t) ==
    IF sessions[session_id] = Absent
    THEN [table |-> sessions, result |-> <<>>]
    ELSE [table |-> [sessions EXCEPT ![session_id] = [@ EXCEPT !.last_access = t]],
          result |-> sessions[session_id].messages]

\* del self._sessions[session_id]
SessionManager_clear_session(sessions, session_id) ==
    [sessions EXCEPT ![session_id] = Absent]

\* removes the sessions with current_time - last_access > ttl_seconds
SessionManager_cleanup_expired(sessions, t) ==
    [s \in SessionIds |->
        IF sessions[s] # Absent /\ t - sessions[s].last_access > ttl_seconds
        THEN Absent ELSE sessions[s]]

\* the store the run exercises, its history of one session id, and the
\* last-access time it keeps for it
Store == IF backend = "sqlite" THEN db ELSE mem
History(table, s) == IF table[s] = Absent THEN <<>> ELSE table[s].messages
LastAccess(table, s) ==
    IF table[s] = Absent THEN NoTime
    ELSE IF backend = "sqlite" THEN table[s].last_accessed ELSE table[s].last_access
Cap == IF backend = "sqlite" THEN MAX_MESSAGES_PER_SESSION ELSE max_messages
TTL == IF backend = "sqlite" THEN SESSION_TTL_SECONDS ELSE ttl_seconds

\* the conversation alternates user and assistant turns
RoleOf(n) == IF n % 2 = 1 THEN "user" ELSE "assistant"

InitSessions ==
    /\ backend \in {"sqlite", "memory"}
    /\ db = NoSessions /\ mem = NoSessions
    /\ sclock = 0 /\ sticks = 0
    /\ sent = [s \in SessionIds |-> 0]

\* create_session: with an id of the caller's on the sqlite store, with a
\* fresh uuid on both
CreateSession ==
    \E s \in SessionIds :
        /\ \/ /\ backend = "sqlite"
              /\ db' = PersistentSessionStorage_create_session(db, s, sclock)
              /\ mem' = mem
           \/ /\ backend = "memory"
              /\ mem[s] = Absent
              /\ mem' = SessionManager_create_session(mem, s, sclock)
              /\ db' = db
        /\ UNCHANGED <<backend, sclock, sticks, sent>>
        /\ UNCHANGED <<wfVars, monVars, rlVars, grVars, ixVars, thVars, hsVars, lateVars>>

AddMessageTo(s) ==
    /\ SumOver(sent, SessionIds) < MaxMsgs
    /\ LET content == sent[s] + 1
       IN  \/ /\ backend = "sqlite"
              /\ db' = PersistentSessionStorage_add_message(
                            db, s, RoleOf(content), content, sclock)
              /\ mem' = mem
           \/ /\ backend = "memory"
              /\ mem' = SessionManager_add_message(
                            mem, s, RoleOf(content), content, sclock)
              /\ db' = db
    /\ sent' = [sent EXCEPT ![s] = @ + 1]
    /\ UNCHANGED <<backend, sclock, sticks>>
    /\ UNCHANGED <<wfVars, monVars, rlVars, grVars, ixVars, thVars, hsVars, lateVars>>

AddMessage == \E s \in SessionIds : AddMessageTo(s)

GetHistoryOf(s) ==
    /\ LET r == IF backend = "sqlite"
                THEN PersistentSessionStorage_get_history(db, s, sclock)
                ELSE SessionManager_get_history(mem, s, sclock)
       IN  IF backend = "sqlite"
           THEN db' = r.table /\ mem' = mem
           ELSE mem' = r.table /\ db' = db
    /\ UNCHANGED <<backend, sclock, sticks, sent>>
    /\ UNCHANGED <<wfVars, monVars, rlVars, grVars, ixVars, thVars, hsVars, lateVars>>

GetHistory == \E s \in SessionIds : GetHistoryOf(s)

ClearSession ==
    \E s \in SessionIds :
        /\ IF backend = "sqlite"
           THEN db' = PersistentSessionStorage_clear_session(db, s, sclock) /\ mem' = mem
           ELSE mem' = SessionManager_clear_session(mem, s) /\ db' = db
        /\ UNCHANGED <<backend, sclock, sticks, sent>>
        /\ UNCHANGED <<wfVars, monVars, rlVars, grVars, ixVars, thVars, hsVars, lateVars>>

\* one sweep of the cleanup thread
Cleanup ==
    /\ IF backend = "sqlite"
       THEN db' = PersistentSessionStorage_cleanup_expired_sessions(db, sclock) /\ mem' = mem
       ELSE mem' = SessionManager_cleanup_expired(mem, sclock) /\ db' = db
    /\ UNCHANGED <<backend, sclock, sticks, sent>>
    /\ UNCHANGED <<wfVars, monVars, rlVars, grVars, ixVars, thVars, hsVars, lateVars>>

\* time passes: one TTL of the store
TickSession ==
    /\ sticks < MaxSessionTicks
    /\ sclock' = sclock + TTL
    /\ sticks' = sticks + 1
    /\ UNCHANGED <<backend, db, mem, sent>>
    /\ UNCHANGED <<wfVars, monVars, rlVars, grVars, ixVars, thVars, hsVars, lateVars>>

InitSess == IdleWorkflow /\ InitMonitor /\ IdleLimiter /\ IdleGrader /\ InitSessions
    /\ IdleIngest /\ IdleThreads /\ IdleSearch /\ IdleLate

NextSess ==
    \/ CreateSession
    \/ AddMessage
    \/ GetHistory
    \/ ClearSession
    \/ Cleanup
    \/ TickSession

SpecSessions == InitSess /\ [][NextSess]_vars

(* ---------------------------------------------------------------------- *)
(* Ingestion: parser (fileParser.py), catalog (metadata_db.py), keyword    *)
(* and vector index (searchEngine.py), worker (background_worker.py)       *)
(* ---------------------------------------------------------------------- *)
\* get_file_content: size limits in bytes
MAX_TEXT_SIZE == 10485760
MAX_DOC_SIZE == 52428800
\* BackgroundWorker(batch_size=20) of get_background_worker
worker_batch_size == 20
\* add_to_summary_queue: the priority of every summary job
summary_priority == 100

\* runs of the pipeline that store content, and summary jobs, in a run
MaxStores == 2
MaxSummaryJobs == 1

\* the watched paths and os.path.splitext(path)[1].lower()
IxPaths == {"/d/a.txt", "/d/b.pdf"}
splitext(path) == IF path = "/d/a.txt" THEN ".txt" ELSE ".pdf"
\* the extension in upper case, without the dot
EXT(path) == IF path = "/d/a.txt" THEN "TXT" ELSE "PDF"

\* a file on disk: its size in bytes and its text, as paragraphs; a blank
\* paragraph is " "
NoFile == [missing |-> TRUE]
Files ==
    { [size |-> 240, text |-> <<"y", "z">>],
      [size |-> 3, text |-> <<" ">>],
      [size |-> MAX_TEXT_SIZE + 1, text |-> <<"x">>] }

\* the strings returned for a file over a limit
TooLargeText == <<"[Error: File too large to read directly]">>
TooLargeDoc == <<"[Error: Document too large to parse]">>

\* the extensions read into memory directly
TextExtensions == {".txt", ".md", ".py", ".js", ".json", ".xml", ".csv", ".log"}

\* fileParser.get_file_content; None and "" are both <<>>: the caller
\* tests `not content`
get_file_content(file, extension) ==
    IF file = NoFile THEN <<>>
    ELSE IF extension \in TextExtensions /\ file.size > MAX_TEXT_SIZE
    THEN TooLargeText
    ELSE IF file.size > MAX_DOC_SIZE THEN TooLargeDoc
    ELSE file.text

\* metadata_db: digest and compression of a content
calculate_hash(content) == [sha256 |-> content]
compress_content(content) == [zlib |-> content]
decompress_content(compressed) == compressed.zlib

\* RecursiveCharacterTextSplitter.split_text: one chunk per paragraph,
\* blank paragraphs are stripped away
split_text(content) == SelectSeq(content, LAMBDA para : para # " ")

\* the summary column when NULL
NullSummary == <<>>
NoCatalog == [p \in IxPaths |-> Absent]

\* INSERT ... ON CONFLICT(path) DO UPDATE: the summary of an existing row stays
store_file_content(cat, path, content, content_hash, t) ==
    IF cat[path] = Absent
    THEN [cat EXCEPT ![path] =
            [hash |-> content_hash, content_text |-> compress_content(content),
             summary |-> NullSummary, processing_status |-> "pending_embedding",
             last_indexed |-> t]]
    ELSE [cat EXCEPT ![path] =
            [@ EXCEPT !.hash = content_hash,
                      !.content_text = compress_content(content),
                      !.processing_status = "pending_embedding",
                      !.last_indexed = t]]

\* metadata_db.get_file_content: None is <<>>
db_get_file_content(cat, path) ==
    IF cat[path] = Absent THEN <<>> ELSE decompress_content(cat[path].content_text)

update_processing_status(cat, path, status) ==
    IF cat[path] = Absent THEN cat
    ELSE [cat EXCEPT ![path] = [@ EXCEPT !.processing_status = status]]

update_summary(cat, path, summary) ==
    IF cat[path] = Absent THEN cat
    ELSE [cat EXCEPT ![path] =
            [@ EXCEPT !.summary = summary, !.processing_status = "completed"]]

\* get_summary(path) or ''
get_summary(cat, path) == IF cat[path] = Absent THEN NullSummary ELSE cat[path].summary

\* a DELETE that leaves the row
delete_metadata_keep_row(cat, path) == cat

delete_metadata(cat, path) == [cat EXCEPT ![path] = Absent]

\* file_needs_reindex that compares the digest with the stored content
file_needs_reindex_no_compare(cat, path, content) ==
    cat[path] = Absent \/ calculate_hash(content) # cat[path].content_text

file_needs_reindex(cat, path, content) ==
    IF cat[path] = Absent THEN TRUE
    ELSE calculate_hash(content) # cat[path].hash

\* the entries of the keyword index (corpus and metadata, in parallel) that
\* are not of a path
without_source(kw, path) == SelectSeq(kw, LAMBDA e : e.source # path)

bm25_entries(file_path, chunks, summary) ==
    [i \in 1..Len(chunks) |->
        [source |-> file_path, summary |-> summary, chunk_index |-> i - 1,
         text |-> chunks[i]]]

\* BackgroundWorker.add_to_embedding_queue
add_to_embedding_queue(eq, seq, file_path, chunks) ==
    eq \cup {[priority |-> Len(chunks), seq |-> seq, file_path |-> file_path,
              chunks |-> chunks]}

\* searchEngine.index_file_pipeline on the file at file_path; t is time.time()
index_file_pipeline(file, file_path, cat, kw, eq, seq, t) ==
    LET content == get_file_content(file, splitext(file_path))
        unchanged == [catalog |-> cat, bm25 |-> kw, embedding_queue |-> eq,
                      embedding_seq |-> seq, stored |-> FALSE, same |-> FALSE,
                      result |-> FALSE]
    IN  IF content = <<>> THEN unchanged
        ELSE IF ~file_needs_reindex(cat, file_path, content)
        THEN [unchanged EXCEPT !.same = TRUE]
        ELSE
            LET stored == store_file_content(cat, file_path, content,
                                             calculate_hash(content), t)
                chunks == split_text(content)
            IN  IF chunks = <<>>
                THEN [unchanged EXCEPT !.catalog = stored, !.stored = TRUE]
                ELSE [catalog |-> stored,
                      bm25 |-> without_source(kw, file_path) \o
                               bm25_entries(file_path, chunks,
                                            get_summary(stored, file_path)),
                      embedding_queue |->
                          add_to_embedding_queue(eq, seq, file_path, chunks),
                      embedding_seq |-> seq + 1,
                      stored |-> TRUE, same |-> FALSE, result |-> TRUE]

\* the records of the vector index that are not of a path:
\* _chroma_collection.delete(where={"source": file_path})
chroma_delete(vec, path) == {r \in vec : r.source # path}

\* searchEngine.delete_file_from_index; fault names the store that raises:
\* an error of the vector store ends the handler, an error of the catalog
\* is swallowed by delete_metadata
delete_file_from_index(file_path, cat, kw, vec, fault) ==
    IF fault = "chroma"
    THEN [catalog |-> cat, bm25 |-> kw, chroma |-> vec]
    ELSE [catalog |-> IF fault = "catalog" THEN cat ELSE delete_metadata(cat, file_path),
          bm25 |-> without_source(kw, file_path),
          chroma |-> chroma_delete(vec, file_path)]

\* searchEngine.index_chunks_to_chroma: replaces the records of the path
index_chunks_to_chroma(vec, cat, file_path, chunks) ==
    IF chunks = <<>> THEN vec
    ELSE chroma_delete(vec, file_path) \cup
         { [id |-> <<file_path, "chunk", i - 1>>, source |-> file_path,
            summary |-> get_summary(cat, file_path), chunk_index |-> i - 1,
            document |-> chunks[i]] : i \in 1..Len(chunks) }

\* the call of the worker, bound to index_chunks_to_chroma
index_chunks_bound(vec, cat, file_path, chunks) ==
    [raised |-> FALSE, chroma |-> index_chunks_to_chroma(vec, cat, file_path, chunks)]

\* embeddingGeneration.index_chunks, as the worker calls it: the module
\* defines no index_chunks, the attribute lookup raises AttributeError
index_chunks(vec, cat, file_path, chunks) ==
    [raised |-> TRUE, chroma |-> vec]

\* PriorityQueue.get: the least (priority, seq)
PopMin(queue) ==
    CHOOSE j \in queue :
        \A k \in queue :
            \/ j.priority < k.priority
            \/ j.priority = k.priority /\ j.seq <= k.seq

\* _process_embedding_batch, collecting: up to batch_size jobs leave the queue
RECURSIVE collect_batch(_, _)
collect_batch(queue, items) ==
    IF Len(items) < worker_batch_size /\ queue # {}
    THEN collect_batch(queue \ {PopMin(queue)}, Append(items, PopMin(queue)))
    ELSE [embedding_queue |-> queue, batch_items |-> items]

add_to_summary_queue(sq, seq, file_path) ==
    sq \cup {[priority |-> summary_priority, seq |-> seq, file_path |-> file_path]}

\* _process_embedding_batch, one item of the batch
process_embedding_item(item, cat, vec, sq, sseq) ==
    LET r == index_chunks(vec, cat, item.file_path, item.chunks)
    IN  IF r.raised
        THEN [catalog |-> cat, chroma |-> r.chroma, summary_queue |-> sq,
              summary_seq |-> sseq]
        ELSE [catalog |-> update_processing_status(cat, item.file_path, "pending_summary"),
              chroma |-> r.chroma,
              summary_queue |-> add_to_summary_queue(sq, sseq, item.file_path),
              summary_seq |-> sseq + 1]

\* summaries are sequences of words; str.lower on the words in use
LowerOf(w) ==
    CASE w = "Summary" -> "summary"
      [] w = "Summary:" -> "summary:"
      [] w = "TXT" -> "txt"
      [] w = "PDF" -> "pdf"
      [] OTHER -> w
lower(s) == [i \in DOMAIN s |-> LowerOf(s[i])]
Contains(s, sub) ==
    \E i \in 1..(Len(s) - Len(sub) + 1) : SubSeq(s, i, i + Len(sub) - 1) = sub

\* the replies of the model runtime to a summary prompt
SummaryReplies ==
    { [error |-> TRUE, text |-> <<>>],
      [error |-> FALSE, text |-> <<>>],
      [error |-> FALSE, text |-> <<"Summary:", "notes">>] }

\* summary_service.generate_summary
generate_summary(content, file_path, reply) ==
    LET role_prefix == <<EXT(file_path), "document:">>
        stripped == IF reply.text # <<>> /\ lower(reply.text)[1] = "summary:"
                    THEN Tail(reply.text) ELSE reply.text
        summary == IF Len(stripped) > 50
                   THEN Append(SubSeq(stripped, 1, 50), "...") ELSE stripped
    IN  IF reply.error
        THEN <<"[", EXT(file_path), "file", "-", "Summary", "unavailable", "]">>
        ELSE IF stripped = <<>>
        THEN role_prefix \o <<"Summary", "generation", "returned", "empty", "response.">>
        ELSE role_prefix \o summary

\* BackgroundWorker._process_summary on the job it has taken
process_summary(item, cat, reply) ==
    LET content == db_get_file_content(cat, item.file_path)
    IN  IF content = <<>> THEN cat
        ELSE update_summary(cat, item.file_path,
                            generate_summary(content, item.file_path, reply))

\* searchEngine._resolve_summary_for_file
placeholder_markers ==
    { <<"generating", "summary">>, <<"summary", "unavailable">>,
      <<"summary", "generation", "returned", "empty">> }
looks_like_placeholder(s) ==
    \/ s = <<>>
    \/ \E p \in placeholder_markers : Contains(lower(s), p)
    \/ lower(s)[1] = "[" /\ lower(s)[Len(s)] = "]"

\* the value of a function that ends without a return statement
PyNone == <<"None">>
SummaryPending == <<"[", "Summary", "pending", "]">>

\* read_fails: metadata_db.get_summary raises. The steps that mark the row
\* and enqueue the job are in the except branch of the catalog read
resolve_summary_for_file(file_path, current_summary, cat, sq, sseq, read_fails) ==
    LET same == [catalog |-> cat, summary_queue |-> sq, summary_seq |-> sseq,
                 result |-> PyNone]
        db_summary == get_summary(cat, file_path)
    IN  IF current_summary # <<>> /\ ~looks_like_placeholder(current_summary)
        THEN [same EXCEPT !.result = current_summary]
        ELSE IF ~read_fails
        THEN IF db_summary # <<>> /\ ~looks_like_placeholder(db_summary)
             THEN [same EXCEPT !.result = db_summary]
             ELSE same
        ELSE [catalog |-> update_processing_status(cat, file_path, "pending_summary"),
              summary_queue |-> add_to_summary_queue(sq, sseq, file_path),
              summary_seq |-> sseq + 1,
              result |-> SummaryPending]

\* the keyword index has entries of a path
InKeywordIndex(kw, path) == \E i \in DOMAIN kw : kw[i].source = path

InitIngest ==
    /\ catalog = NoCatalog
    /\ bm25 = <<>> /\ chroma = {}
    /\ embedding_queue = {} /\ summary_queue = {}
    /\ embedding_seq = 0 /\ summary_seq = 0
    /\ batch_items = <<>>
    /\ nstores = 0 /\ files_indexed = 0
    /\ seen = {}

\* the watcher's on_created / on_modified, or the scanner, on the file f at
\* path p: the pipeline runs on what is on disk
OnModifiedOf(p, f) ==
    LET r == index_file_pipeline(f, p, catalog, bm25, embedding_queue,
                                 embedding_seq, nstores + 1)
    IN  /\ r.stored => nstores < MaxStores
        /\ catalog' = r.catalog
        /\ bm25' = r.bm25
        /\ embedding_queue' = r.embedding_queue
        /\ embedding_seq' = r.embedding_seq
        /\ nstores' = IF r.stored THEN nstores + 1 ELSE nstores
        /\ files_indexed' = IF r.result THEN files_indexed + 1 ELSE files_indexed
        /\ seen' = IF r.same THEN seen \cup {"same"} ELSE seen
        /\ UNCHANGED <<chroma, summary_queue, summary_seq, batch_items>>
        /\ UNCHANGED <<wfVars, monVars, rlVars, grVars, ssVars, thVars, hsVars, lateVars>>

OnModified == \E p \in IxPaths : \E f \in Files : OnModifiedOf(p, f)

\* the watcher's on_deleted for the path p
OnDeletedOf(p, fault) ==
    LET r == delete_file_from_index(p, catalog, bm25, chroma, fault)
    IN  /\ catalog' = r.catalog
        /\ bm25' = r.bm25
        /\ chroma' = r.chroma
        /\ UNCHANGED <<embedding_queue, summary_queue, embedding_seq, summary_seq,
                       batch_items, nstores, files_indexed, seen>>
        /\ UNCHANGED <<wfVars, monVars, rlVars, grVars, ssVars, thVars, hsVars, lateVars>>

OnDeleted ==
    \E p \in IxPaths : \E fault \in {"none", "chroma", "catalog"} : OnDeletedOf(p, fault)

\* _worker_loop, embedding queue not empty: the batch is collected
WorkerCollect ==
    /\ batch_items = <<>>
    /\ embedding_queue # {}
    /\ LET r == collect_batch(embedding_queue, <<>>)
       IN  /\ embedding_queue' = r.embedding_queue
           /\ batch_items' = r.batch_items
    /\ UNCHANGED <<catalog, bm25, chroma, summary_queue, embedding_seq,
                   summary_seq, nstores, files_indexed, seen>>
    /\ UNCHANGED <<wfVars, monVars, rlVars, grVars, ssVars, thVars, hsVars, lateVars>>

\* _process_embedding_batch: the next item of the batch
WorkerEmbed ==
    /\ batch_items # <<>>
    /\ LET item == Head(batch_items)
           r == process_embedding_item(item, catalog, chroma, summary_queue, summary_seq)
       IN  /\ catalog' = r.catalog
           /\ chroma' = r.chroma
           /\ summary_queue' = r.summary_queue
           /\ summary_seq' = r.summary_seq
           /\ seen' = IF catalog[item.file_path] = Absent
                      THEN seen \cup {"stale"} ELSE seen
    /\ batch_items' = Tail(batch_items)
    /\ UNCHANGED <<bm25, embedding_queue, embedding_seq, nstores, files_indexed>>
    /\ UNCHANGED <<wfVars, monVars, rlVars, grVars, ssVars, thVars, hsVars, lateVars>>

\* _worker_loop, embedding queue empty: one summary job
WorkerSummary ==
    \E reply \in SummaryReplies :
        /\ batch_items = <<>>
        /\ embedding_queue = {}
        /\ summary_queue # {}
        /\ LET item == PopMin(summary_queue)
           IN  /\ summary_queue' = summary_queue \ {item}
               /\ catalog' = process_summary(item, catalog, reply)
        /\ UNCHANGED <<bm25, chroma, embedding_queue, embedding_seq, summary_seq,
                       batch_items, nstores, files_indexed, seen>>
        /\ UNCHANGED <<wfVars, monVars, rlVars, grVars, ssVars, thVars, hsVars, lateVars>>

\* hybrid_search with a keyword hit on a chunk of p: the summary of the hit
\* is resolved
KeywordHit(kw, p) == kw[CHOOSE i \in DOMAIN kw : kw[i].source = p]

SearchOf(p, read_fails) ==
    /\ InKeywordIndex(bm25, p)
    /\ read_fails => summary_seq < MaxSummaryJobs
    /\ LET r == resolve_summary_for_file(p, KeywordHit(bm25, p).summary, catalog,
                                         summary_queue, summary_seq, read_fails)
       IN  /\ catalog' = r.catalog
           /\ summary_queue' = r.summary_queue
           /\ summary_seq' = r.summary_seq
    /\ UNCHANGED <<bm25, chroma, embedding_queue, embedding_seq, batch_items,
                   nstores, files_indexed, seen>>
    /\ UNCHANGED <<wfVars, monVars, rlVars, grVars, ssVars, thVars, hsVars, lateVars>>

Search == \E p \in IxPaths : \E read_fails \in BOOLEAN : SearchOf(p, read_fails)

InitIx == IdleWorkflow /\ InitMonitor /\ IdleLimiter /\ IdleGrader /\ IdleSessions
          /\ InitIngest /\ IdleThreads /\ IdleSearch /\ IdleLate

NextIx ==
    \/ OnModified
    \/ OnDeleted
    \/ WorkerCollect
    \/ WorkerEmbed
    \/ WorkerSummary
    \/ Search

SpecIngest == InitIx /\ [][NextIx]_vars

(* ---------------------------------------------------------------------- *)
(* hybrid_search: merging what the two branches return                     *)
(* (services/searchEngine.py)                                              *)
(* ---------------------------------------------------------------------- *)
\* results of the two branches in one call, and the largest k of a request
MaxRaw == 3
MaxTop == 2

\* what a branch can append to `results`: a chunk of a source with a score
\* (in tenths; the keyword branch gives scores in 0 < s <= 1, the semantic
\* branch 1 - distance) and the summary in the chunk's metadata (its words)
ScoreVals == {2, 4, 5}
SummaryVals == {<<>>, <<"notes">>}
RawResults == [source : IxPaths, score : ScoreVals, summary : SummaryVals]
RawLists == UNION {[1..n -> RawResults] : n \in 0..MaxRaw}

\* k of a request is an unvalidated integer (api/main.py SearchRequest.k)
SearchKs == -1..MaxTop

\* the queries: generic words only, one main keyword, two main keywords
Queries == {<<"find">>, <<"find", "notes">>, <<"notes", "txt">>}

generic_words ==
    {"find", "search", "show", "get", "look", "for", "all", "the", "a", "an", "my"}
main_keywords(query) == SelectSeq(query, LAMBDA w : w \notin generic_words)

\* os.path.basename(file_path).lower(), as the words a keyword can occur in
filename(file_path) == IF file_path = "/d/a.txt" THEN {"a", "txt"} ELSE {"b", "pdf"}

\* `kw in filename or kw in summary`
keyword_matches(kw, result) ==
    kw \in filename(result.source) \/ \E i \in DOMAIN result.summary : result.summary[i] = kw

\* the loop over main_keywords: boost = max(boost, 0.3) for a match
RECURSIVE boost_from(_, _, _, _)
boost_from(keywords, i, result, boost) ==
    IF i > Len(keywords) THEN boost
    ELSE boost_from(keywords, i + 1, result,
                    IF keyword_matches(keywords[i], result)
                    THEN (IF boost > 3 THEN boost ELSE 3)
                    ELSE boost)

\* 0.3 added for every keyword that matches
boost_per_keyword(keywords, result) ==
    3 * Cardinality({i \in DOMAIN keywords : keyword_matches(keywords[i], result)})
\* the boost of a result, in tenths
boost_of(keywords, result) == boost_from(keywords, 1, result, 0)

\* score + boost
boosted_score(result, keywords) == result.score + boost_of(keywords, result)

\* position of a source among the dict's keys, 0 when it is not a key
KeyIndex(dict, file_path) ==
    IF \E i \in 1..Len(dict) : dict[i].source = file_path
    THEN CHOOSE i \in 1..Len(dict) : dict[i].source = file_path
    ELSE 0

\* the loop over `results`: a dict keyed by source, in insertion order; a
\* key's value is replaced only by a strictly higher boosted score
RECURSIVE seen_files_from(_, _, _, _)
seen_files_from(results, keywords, i, dict) ==
    IF i > Len(results) THEN dict
    ELSE LET result == results[i]
             score  == boosted_score(result, keywords)
             at     == KeyIndex(dict, result.source)
             kept   == [result EXCEPT !.score = score]
         IN  IF at = 0
             THEN seen_files_from(results, keywords, i + 1, Append(dict, kept))
             ELSE IF score > dict[at].score
             THEN seen_files_from(results, keywords, i + 1, [dict EXCEPT ![at] = kept])
             ELSE seen_files_from(results, keywords, i + 1, dict)

\* every result kept, whatever its source
seen_files_keep_all(results, keywords) ==
    [i \in 1..Len(results) |->
        [results[i] EXCEPT !.score = boosted_score(results[i], keywords)]]
\* list(seen_files.values()) after the loop
seen_files(results, keywords) == seen_files_from(results, keywords, 1, <<>>)

\* list.sort(key=score, reverse=True): stable, equal scores keep their order
RECURSIVE InsertByScore(_, _)
InsertByScore(sorted, x) ==
    IF sorted = <<>> THEN <<x>>
    ELSE IF Head(sorted).score >= x.score
    THEN <<Head(sorted)>> \o InsertByScore(Tail(sorted), x)
    ELSE <<x>> \o sorted

RECURSIVE sort_by_score(_)
sort_by_score(list) ==
    IF list = <<>> THEN <<>>
    ELSE InsertByScore(sort_by_score(SubSeq(list, 1, Len(list) - 1)), list[Len(list)])

\* list[:k] of Python: a negative k counts from the end
slice_to(list, k) ==
    IF k >= 0 THEN SubSeq(list, 1, Min(k, Len(list)))
    ELSE SubSeq(list, 1, IF Len(list) + k > 0 THEN Len(list) + k ELSE 0)

\* deduplicate, sort, cut: lines 344-376
hybrid_search(query, results, k) ==
    slice_to(sort_by_score(seen_files(results, main_keywords(query))), k)

InitSearch ==
    /\ hs_query \in Queries
    /\ hs_results \in RawLists
    /\ hs_k \in SearchKs
    /\ hs_out = <<>>
    /\ hs_phase = "call"

\* one call. Resolving the summaries and attaching the status (lines
\* 362-375, action Search above) change fields of the results, never their
\* number, sources, scores or order.
HybridSearch ==
    /\ hs_phase = "call"
    /\ hs_out' = hybrid_search(hs_query, hs_results, hs_k)
    /\ hs_phase' = "returned"
    /\ UNCHANGED <<hs_results, hs_k, hs_query>>
    /\ UNCHANGED <<wfVars, monVars, rlVars, grVars, ssVars, ixVars, thVars, lateVars>>

InitHs == IdleWorkflow /\ InitMonitor /\ IdleLimiter /\ IdleGrader /\ IdleSessions
          /\ IdleIngest /\ IdleThreads /\ InitSearch /\ IdleLate
NextHs == HybridSearch
SpecSearch == InitHs /\ [][NextHs]_vars

(* ---------------------------------------------------------------------- *)
(* Threads that run the ingestion pipeline                                 *)
(* (services/file_watcher.py, services/background_worker.py)               *)
(*                                                                         *)
(* The observer dispatches the handler's callbacks one after the other on  *)
(* its own thread ("watcher"); add_folder runs scan_directory on the       *)
(* thread of the request ("scanner") while the observer is alive.  A       *)
(* pipeline run is three steps: the read of the file, the catalog and      *)
(* keyword work up to the sequence number taken under _seq_lock, then the  *)
(* put on the queue, which happens after the lock is released.             *)
(* ---------------------------------------------------------------------- *)
\* created/modified events raised, files visited by scans, in one run
MaxEvents == 2
MaxScans == 2

InPipeline(t) == tpc[t].at \in {"pipeline", "store", "put"}

\* a file is written and the observer queues its created/modified event
FileEvent ==
    /\ nevents < MaxEvents
    /\ \E p \in IxPaths : \E f \in Files :
        /\ disk' = [disk EXCEPT ![p] = f]
        /\ events' = Append(events, p)
    /\ nevents' = nevents + 1
    /\ UNCHANGED <<tpc, processing, nscans>>
    /\ UNCHANGED <<wfVars, monVars, rlVars, grVars, ssVars, ixVars, hsVars, lateVars>>

\* _should_process for a supported file: not while the path is in _processing
should_process(file_path, in_flight) == file_path \notin in_flight

\* on_created / on_modified up to the debounce sleep: _should_process
DispatchEvent ==
    /\ tpc["watcher"].at = "idle"
    /\ events # <<>>
    /\ events' = Tail(events)
    /\ tpc' = IF ~should_process(Head(events), processing)
              THEN tpc
              ELSE [tpc EXCEPT !["watcher"] = [at |-> "debounce", path |-> Head(events)]]
    /\ UNCHANGED <<processing, disk, nevents, nscans>>
    /\ UNCHANGED <<wfVars, monVars, rlVars, grVars, ssVars, ixVars, hsVars, lateVars>>

\* after the sleep: os.path.exists, then _processing.add
Debounced ==
    /\ tpc["watcher"].at = "debounce"
    /\ IF disk[tpc["watcher"].path] # NoFile
       THEN /\ processing' = processing \cup {tpc["watcher"].path}
            /\ tpc' = [tpc EXCEPT !["watcher"] = [at |-> "pipeline", path |-> tpc["watcher"].path]]
       ELSE /\ tpc' = [tpc EXCEPT !["watcher"] = IdleThread]
            /\ UNCHANGED processing
    /\ UNCHANGED <<events, disk, nevents, nscans>>
    /\ UNCHANGED <<wfVars, monVars, rlVars, grVars, ssVars, ixVars, hsVars, lateVars>>

\* scan_directory comes to a supported file: it calls the pipeline at once
ScanFile ==
    /\ tpc["scanner"].at = "idle"
    /\ nscans < MaxScans
    /\ \E p \in IxPaths :
        /\ disk[p] # NoFile
        /\ tpc' = [tpc EXCEPT !["scanner"] = [at |-> "pipeline", path |-> p]]
    /\ nscans' = nscans + 1
    /\ UNCHANGED <<processing, events, disk, nevents>>
    /\ UNCHANGED <<wfVars, monVars, rlVars, grVars, ssVars, ixVars, hsVars, lateVars>>

\* the handler's finally: _processing.discard; the scanner has none
after_pipeline(t, set) == IF t = "watcher" THEN set \ {tpc[t].path} ELSE set

\* step 1 of index_file_pipeline on thread t: the file is read
ReadFileOf(t) ==
    /\ tpc[t].at = "pipeline"
    /\ tpc' = [tpc EXCEPT ![t] = [at |-> "store", path |-> tpc[t].path,
                                  file |-> disk[tpc[t].path]]]
    /\ UNCHANGED <<processing, events, disk, nevents, nscans>>
    /\ UNCHANGED <<wfVars, monVars, rlVars, grVars, ssVars, ixVars, hsVars, lateVars>>

\* the rest of index_file_pipeline on thread t, with the content it has
\* read, up to the sequence number of its job
PipelineOf(t) ==
    /\ tpc[t].at = "store"
    /\ LET r == index_file_pipeline(tpc[t].file, tpc[t].path, catalog, bm25, {},
                                    embedding_seq, nstores + 1)
        IN  /\ r.stored => nstores < MaxStores
            /\ catalog' = r.catalog
            /\ bm25' = r.bm25
            /\ embedding_seq' = r.embedding_seq
            /\ nstores' = IF r.stored THEN nstores + 1 ELSE nstores
            /\ IF r.embedding_queue # {}
               THEN /\ tpc' = [tpc EXCEPT ![t] =
                                [at |-> "put", path |-> tpc[t].path,
                                 job |-> CHOOSE j \in r.embedding_queue : TRUE]]
                    /\ UNCHANGED processing
               ELSE /\ tpc' = [tpc EXCEPT ![t] = IdleThread]
                    /\ processing' = after_pipeline(t, processing)
    /\ UNCHANGED <<events, disk, nevents, nscans>>
    /\ UNCHANGED <<chroma, embedding_queue, summary_queue, summary_seq,
                   batch_items, files_indexed, seen>>
    /\ UNCHANGED <<wfVars, monVars, rlVars, grVars, ssVars, hsVars, lateVars>>

\* embedding_queue.put of the job, and the return of the pipeline
QueuePut(t) ==
    /\ tpc[t].at = "put"
    /\ embedding_queue' = embedding_queue \cup {tpc[t].job}
    /\ tpc' = [tpc EXCEPT ![t] = IdleThread]
    /\ processing' = after_pipeline(t, processing)
    /\ UNCHANGED <<events, disk, nevents, nscans>>
    /\ UNCHANGED <<catalog, bm25, chroma, summary_queue, embedding_seq,
                   summary_seq, batch_items, nstores, files_indexed, seen>>
    /\ UNCHANGED <<wfVars, monVars, rlVars, grVars, ssVars, hsVars, lateVars>>

InitTh == IdleWorkflow /\ InitMonitor /\ IdleLimiter /\ IdleGrader /\ IdleSessions
          /\ InitIngest /\ IdleThreads /\ IdleSearch /\ IdleLate
NextTh ==
    \/ FileEvent
    \/ DispatchEvent
    \/ Debounced
    \/ ScanFile
    \/ \E t \in ThreadIds : ReadFileOf(t)
    \/ \E t \in ThreadIds : PipelineOf(t)
    \/ \E t \in ThreadIds : QueuePut(t)
    \/ WorkerCollect
    \/ WorkerEmbed
SpecThreads == InitTh /\ [][NextTh]_vars

(* ---------------------------------------------------------------------- *)
(* The worker's thread and its controls                                    *)
(* (services/background_worker.py: start, stop, pause, resume,             *)
(*  _check_pause, _worker_loop)                                            *)
(*                                                                         *)
(* pause, resume and the body of _check_pause run under pause_lock, so     *)
(* each of them is one step.  start, stop, pause and resume are called one *)
(* after the other by one caller; stop's join returns when the thread has  *)
(* ended or after its timeout of 5 seconds, which a thread can outlast     *)
(* while it waits on the condition or works on a batch or a summary.       *)
(* ---------------------------------------------------------------------- *)
otherWk == <<wfVars, monVars, rlVars, grVars, ssVars, thVars, hsVars, kwVars, psVars, mtVars>>

\* the loop's file of two chunks
WkFile == [size |-> 240, text |-> <<"y", "z">>]

\* the stores after n ingestions, with a summarization item queued by a
\* search whose catalog read failed when `pending`
RECURSIVE IngestedPaths(_, _)
IngestedPaths(n, s) ==
    IF n = 0 THEN s
    ELSE LET p == IF n = 1 THEN "/d/b.pdf" ELSE "/d/a.txt"
             r == index_file_pipeline(WkFile, p, s.catalog, s.bm25,
                                      s.embedding_queue, s.embedding_seq, 1)
         IN  IngestedPaths(n - 1, r)

InitWorkerStores ==
    \E n \in 0..2 : \E pending \in BOOLEAN :
        LET s0 == [catalog |-> NoCatalog, bm25 |-> <<>>, embedding_queue |-> {},
                   embedding_seq |-> 0]
            s  == IngestedPaths(n, s0)
            p  == "/d/b.pdf"
            rs == resolve_summary_for_file(p, <<>>, s.catalog, {}, 0, TRUE)
        IN  /\ pending => n > 0
            /\ catalog = IF pending THEN rs.catalog ELSE s.catalog
            /\ bm25 = s.bm25
            /\ embedding_queue = s.embedding_queue
            /\ embedding_seq = s.embedding_seq
            /\ summary_queue = IF pending THEN rs.summary_queue ELSE {}
            /\ summary_seq = IF pending THEN rs.summary_seq ELSE 0
            /\ nstores = n /\ files_indexed = n
            /\ chroma = {} /\ batch_items = <<>> /\ seen = {}

\* the next thread that start() would create, 0 when the run has none left
NextThread ==
    IF \E t \in WorkerThreads : wthreads[t].at = "new"
    THEN CHOOSE t \in WorkerThreads :
            wthreads[t].at = "new" /\ \A u \in WorkerThreads : wthreads[u].at = "new" => t <= u
    ELSE 0

Start ==
    /\ caller = "idle"
    /\ ~running => NextThread # 0
    /\ IF running
       THEN UNCHANGED <<running, paused, wthreads, worker_thread>>
       ELSE /\ running' = TRUE
            /\ paused' = FALSE
            /\ worker_thread' = NextThread
            /\ wthreads' = [wthreads EXCEPT ![NextThread] = [at |-> "top", batch |-> <<>>]]
    /\ UNCHANGED caller
    /\ UNCHANGED <<ixVars, otherWk>>

\* stop up to the join
Stop ==
    /\ caller = "idle"
    /\ running' = FALSE
    /\ caller' = IF worker_thread # 0 THEN "joining" ELSE "idle"
    /\ UNCHANGED <<paused, wthreads, worker_thread>>
    /\ UNCHANGED <<ixVars, otherWk>>

\* worker_thread.join(timeout=5) returns
JoinReturns ==
    /\ caller = "joining"
    /\ wthreads[worker_thread].at \in {"done", "waiting", "batch", "summary"}
    /\ caller' = "idle"
    /\ UNCHANGED <<running, paused, wthreads, worker_thread>>
    /\ UNCHANGED <<ixVars, otherWk>>

Pause ==
    /\ caller = "idle"
    /\ paused' = TRUE
    /\ UNCHANGED <<running, wthreads, worker_thread, caller>>
    /\ UNCHANGED <<ixVars, otherWk>>

\* pause_condition.notify_all(): every thread in wait() is woken
notify_all(threads) ==
    [t \in WorkerThreads |->
        IF threads[t].at = "waiting" THEN [threads[t] EXCEPT !.at = "woken"]
        ELSE threads[t]]

Resume ==
    /\ caller = "idle"
    /\ paused' = FALSE
    /\ wthreads' = notify_all(wthreads)
    /\ UNCHANGED <<running, worker_thread, caller>>
    /\ UNCHANGED <<ixVars, otherWk>>

\* `while self.running` at the top of the loop
LoopTest(t) ==
    /\ wthreads[t].at = "top"
    /\ wthreads' = [wthreads EXCEPT ![t].at = IF running THEN "check" ELSE "done"]
    /\ UNCHANGED <<running, paused, worker_thread, caller>>
    /\ UNCHANGED <<ixVars, otherWk>>

\* the condition of the wait loop in _check_pause
must_wait_never(is_paused, is_running) == FALSE
must_wait(is_paused, is_running) == is_paused /\ is_running

\* _check_pause under the lock: on entry, and again after a wake-up
CheckPause(t) ==
    /\ wthreads[t].at \in {"check", "woken"}
    /\ wthreads' = [wthreads EXCEPT ![t].at =
                        IF must_wait(paused, running) THEN "waiting" ELSE "pick"]
    /\ UNCHANGED <<running, paused, worker_thread, caller>>
    /\ UNCHANGED <<ixVars, otherWk>>

\* the if / elif / else of the loop: collect a batch, or take one
\* summarization item, or sleep
Pick(t) ==
    /\ wthreads[t].at = "pick"
    /\ IF embedding_queue # {}
       THEN LET r == collect_batch(embedding_queue, <<>>)
            IN  /\ embedding_queue' = r.embedding_queue
                /\ wthreads' = [wthreads EXCEPT ![t] = [at |-> "batch", batch |-> r.batch_items]]
                /\ UNCHANGED summary_queue
       ELSE IF summary_queue # {}
       THEN /\ summary_queue' = summary_queue \ {PopMin(summary_queue)}
            /\ wthreads' = [wthreads EXCEPT ![t] =
                                [at |-> "summary", batch |-> <<PopMin(summary_queue)>>]]
            /\ UNCHANGED embedding_queue
       ELSE /\ wthreads' = [wthreads EXCEPT ![t].at = "sleep"]
            /\ UNCHANGED <<embedding_queue, summary_queue>>
    /\ UNCHANGED <<running, paused, worker_thread, caller>>
    /\ UNCHANGED <<catalog, bm25, chroma, embedding_seq, summary_seq, batch_items,
                   nstores, files_indexed, seen>>
    /\ UNCHANGED otherWk

\* one item of the batch in _process_embedding_batch
EmbedItem(t) ==
    /\ wthreads[t].at = "batch"
    /\ LET item == Head(wthreads[t].batch)
           r == process_embedding_item(item, catalog, chroma, summary_queue, summary_seq)
       IN  /\ catalog' = r.catalog
           /\ chroma' = r.chroma
           /\ summary_queue' = r.summary_queue
           /\ summary_seq' = r.summary_seq
    /\ wthreads' = [wthreads EXCEPT ![t] =
                        [at |-> IF Len(wthreads[t].batch) = 1 THEN "top" ELSE "batch",
                         batch |-> Tail(wthreads[t].batch)]]
    /\ UNCHANGED <<running, paused, worker_thread, caller>>
    /\ UNCHANGED <<bm25, embedding_queue, embedding_seq, batch_items, nstores,
                   files_indexed, seen>>
    /\ UNCHANGED otherWk

\* _process_summary after the get
Summarize(t) ==
    /\ wthreads[t].at = "summary"
    /\ \E reply \in SummaryReplies :
        catalog' = process_summary(Head(wthreads[t].batch), catalog, reply)
    /\ wthreads' = [wthreads EXCEPT ![t] = [at |-> "top", batch |-> <<>>]]
    /\ UNCHANGED <<running, paused, worker_thread, caller>>
    /\ UNCHANGED <<bm25, chroma, embedding_queue, summary_queue, embedding_seq,
                   summary_seq, batch_items, nstores, files_indexed, seen>>
    /\ UNCHANGED otherWk

\* time.sleep(1) when both queues are empty
Sleep(t) ==
    /\ wthreads[t].at = "sleep"
    /\ wthreads' = [wthreads EXCEPT ![t].at = "top"]
    /\ UNCHANGED <<running, paused, worker_thread, caller>>
    /\ UNCHANGED <<ixVars, otherWk>>

InitWk == IdleWorkflow /\ InitMonitor /\ IdleLimiter /\ IdleGrader /\ IdleSessions
          /\ InitWorkerStores /\ IdleThreads /\ IdleSearch /\ IdleWorker
          /\ IdleKeyword /\ IdlePersistent /\ IdleMonitorThreads
NextWk ==
    \/ Start
    \/ Stop
    \/ JoinReturns
    \/ Pause
    \/ Resume
    \/ \E t \in WorkerThreads : LoopTest(t)
    \/ \E t \in WorkerThreads : CheckPause(t)
    \/ \E t \in WorkerThreads : Pick(t)
    \/ \E t \in WorkerThreads : EmbedItem(t)
    \/ \E t \in WorkerThreads : Summarize(t)
    \/ \E t \in WorkerThreads : Sleep(t)
SpecWorker == InitWk /\ [][NextWk]_vars

(* ---------------------------------------------------------------------- *)
(* The keyword corpus and its metadata under concurrent threads            *)
(* (services/searchEngine.py: index_file_pipeline step 5,                  *)
(*  delete_file_from_index, hybrid_search's keyword branch)                *)
(*                                                                         *)
(* The two lists and the index are module globals changed statement by     *)
(* statement, without a lock: every statement is a step of its thread.     *)
(* ---------------------------------------------------------------------- *)
\* ingestions and deletions begun in one run, chunks of one ingestion
MaxKwOps == 3
MaxChunks == 2

otherKw == <<wfVars, monVars, rlVars, grVars, ssVars, ixVars, thVars, hsVars, wkVars, psVars,
             mtVars>>

\* chunk i of the path p, and the metadata written for it
ChunkText(p, i) == [text_of |-> p, ordinal |-> i]
chunks_of(p, n) == [i \in 1..n |-> ChunkText(p, i - 1)]
metadatas_of(p, n) == [i \in 1..n |-> [source |-> p, chunk_index |-> i - 1]]

\* metadata entry `meta` describes the corpus entry `doc`
Describes(meta, doc) == meta.source = doc.text_of /\ meta.chunk_index = doc.ordinal

\* sorted(indices_to_remove, reverse=True), positions counted from 1
RECURSIVE indices_to_remove(_, _, _)
indices_to_remove(metadata, file_path, i) ==
    IF i = 0 THEN <<>>
    ELSE IF metadata[i].source = file_path
    THEN <<i>> \o indices_to_remove(metadata, file_path, i - 1)
    ELSE indices_to_remove(metadata, file_path, i - 1)

\* del list[idx]
del_at(list, idx) == SubSeq(list, 1, idx - 1) \o SubSeq(list, idx + 1, Len(list))

\* the statement after the removal loop
after_removal(op) == IF op = "ingest" THEN "extend_corpus" ELSE "rebuild"

\* a thread enters step 5 of the pipeline (op = "ingest", n chunks) or the
\* keyword part of delete_file_from_index (op = "delete")
BeginKw(t, op, p, n) ==
    /\ kthreads[t].at = "idle"
    /\ nkwops < MaxKwOps
    /\ nkwops' = nkwops + 1
    /\ LET todo == indices_to_remove(bm25_metadata, p, Len(bm25_metadata))
       IN  kthreads' = [kthreads EXCEPT ![t] =
                [at |-> IF todo = <<>> THEN after_removal(op) ELSE "del_corpus",
                 op |-> op, path |-> p, n |-> n, todo |-> todo]]
    /\ UNCHANGED <<bm25_corpus, bm25_metadata, bm25_index, kw_hit>>
    /\ UNCHANGED otherKw

BeginIngest == \E p \in IxPaths : \E n \in 1..MaxChunks : BeginKw("watcher", "ingest", p, n)
BeginScan == \E p \in IxPaths : \E n \in 1..MaxChunks : BeginKw("scanner", "ingest", p, n)
BeginDelete == \E p \in IxPaths : BeginKw("watcher", "delete", p, 0)

\* del _bm25_corpus[idx]; an index past the end raises and ends the call
DelCorpus(t) ==
    /\ kthreads[t].at = "del_corpus"
    /\ LET idx == Head(kthreads[t].todo)
       IN  IF idx > Len(bm25_corpus)
           THEN /\ kthreads' = [kthreads EXCEPT ![t] = IdleKwThread]
                /\ UNCHANGED bm25_corpus
           ELSE /\ bm25_corpus' = del_at(bm25_corpus, idx)
                /\ kthreads' = [kthreads EXCEPT ![t].at = "del_metadata"]
    /\ UNCHANGED <<bm25_metadata, bm25_index, kw_hit, nkwops>>
    /\ UNCHANGED otherKw

\* del _bm25_metadata[idx]
DelMetadata(t) ==
    /\ kthreads[t].at = "del_metadata"
    /\ LET idx == Head(kthreads[t].todo)
           rest == Tail(kthreads[t].todo)
       IN  IF idx > Len(bm25_metadata)
           THEN /\ kthreads' = [kthreads EXCEPT ![t] = IdleKwThread]
                /\ UNCHANGED bm25_metadata
           ELSE /\ bm25_metadata' = del_at(bm25_metadata, idx)
                /\ kthreads' = [kthreads EXCEPT
                        ![t].todo = rest,
                        ![t].at = IF rest = <<>> THEN after_removal(kthreads[t].op)
                                  ELSE "del_corpus"]
    /\ UNCHANGED <<bm25_corpus, bm25_index, kw_hit, nkwops>>
    /\ UNCHANGED otherKw

\* _bm25_corpus.extend(chunks)
ExtendCorpus(t) ==
    /\ kthreads[t].at = "extend_corpus"
    /\ bm25_corpus' = bm25_corpus \o chunks_of(kthreads[t].path, kthreads[t].n)
    /\ kthreads' = [kthreads EXCEPT ![t].at = "extend_metadata"]
    /\ UNCHANGED <<bm25_metadata, bm25_index, kw_hit, nkwops>>
    /\ UNCHANGED otherKw

\* _bm25_metadata.extend(metadatas)
ExtendMetadata(t) ==
    /\ kthreads[t].at = "extend_metadata"
    /\ bm25_metadata' = bm25_metadata \o metadatas_of(kthreads[t].path, kthreads[t].n)
    /\ kthreads' = [kthreads EXCEPT ![t].at = "rebuild"]
    /\ UNCHANGED <<bm25_corpus, bm25_index, kw_hit, nkwops>>
    /\ UNCHANGED otherKw

\* _bm25_index = BM25Okapi(tokenized corpus), None for an empty corpus
Rebuild(t) ==
    /\ kthreads[t].at = "rebuild"
    /\ bm25_index' = bm25_corpus
    /\ kthreads' = [kthreads EXCEPT ![t] = IdleKwThread]
    /\ UNCHANGED <<bm25_corpus, bm25_metadata, kw_hit, nkwops>>
    /\ UNCHANGED otherKw

\* the keyword branch of a search reads position idx, one of the positions
\* the index scores; a position past the end of a list raises
KeywordRead ==
    /\ bm25_index # <<>> /\ bm25_corpus # <<>>
    /\ \E idx \in 1..Len(bm25_index) :
        kw_hit' = IF idx <= Len(bm25_corpus) /\ idx <= Len(bm25_metadata)
                  THEN [content |-> bm25_corpus[idx], metadata |-> bm25_metadata[idx]]
                  ELSE [raised |-> TRUE]
    /\ UNCHANGED <<bm25_corpus, bm25_metadata, bm25_index, kthreads, nkwops>>
    /\ UNCHANGED otherKw

InitKw == IdleWorkflow /\ InitMonitor /\ IdleLimiter /\ IdleGrader /\ IdleSessions
          /\ IdleIngest /\ IdleThreads /\ IdleSearch /\ IdleWorker /\ IdleKeyword
          /\ IdlePersistent /\ IdleMonitorThreads
NextKw ==
    \/ BeginIngest
    \/ BeginScan
    \/ BeginDelete
    \/ \E t \in KwThreads : DelCorpus(t)
    \/ \E t \in KwThreads : DelMetadata(t)
    \/ \E t \in KwThreads : ExtendCorpus(t)
    \/ \E t \in KwThreads : ExtendMetadata(t)
    \/ \E t \in KwThreads : Rebuild(t)
    \/ KeywordRead
SpecKeyword == InitKw /\ [][NextKw]_vars

(* ---------------------------------------------------------------------- *)
(* Threads on the persistent session store                                 *)
(* ---------------------------------------------------------------------- *)
otherPs == <<wfVars, monVars, rlVars, grVars, ssVars, ixVars, thVars, hsVars, wkVars, kwVars,
             mtVars>>

\* the session every thread calls with, and the message thread t adds
PsSession == "s1"
MessageOf(t) == Message(RoleOf(t), t, 0)

\* the table before the calls: no row, an empty history, one message
StoredRow(messages) == [created_at |-> 0, last_accessed |-> 0, messages |-> messages]
StartTables ==
    {[NoSessions EXCEPT ![PsSession] = row] :
        row \in {Absent, StoredRow(<<>>), StoredRow(<<Message("assistant", 0, 0)>>)}}

\* add_message: `with self.lock`
BeginAddMessage(t) ==
    /\ pthreads[t].at = "idle"
    /\ ps_lock = 0
    /\ ps_lock' = t
    /\ pthreads' = [pthreads EXCEPT ![t] = [@ EXCEPT !.at = "select", !.op = "add"]]
    /\ UNCHANGED <<ps_table, ps_start>>
    /\ UNCHANGED otherPs

\* add_message: SELECT messages ... fetchone(), json.loads
SelectMessages(t) ==
    /\ pthreads[t].at = "select"
    /\ LET row == ps_table[PsSession]
       IN  pthreads' = [pthreads EXCEPT ![t] =
                IF row = Absent
                THEN [@ EXCEPT !.at = "create", !.messages = <<>>]
                ELSE [@ EXCEPT !.at = "update", !.messages = row.messages]]
    /\ UNCHANGED <<ps_table, ps_lock, ps_start>>
    /\ UNCHANGED otherPs

\* add_message: self.create_session(session_id) when there was no row
CreateMissing(t) ==
    /\ pthreads[t].at = "create"
    /\ ps_table' = PersistentSessionStorage_create_session(ps_table, PsSession, 0)
    /\ pthreads' = [pthreads EXCEPT ![t] = [@ EXCEPT !.at = "update"]]
    /\ UNCHANGED <<ps_lock, ps_start>>
    /\ UNCHANGED otherPs

\* add_message: append, trim, UPDATE sessions SET messages = ?, commit, and
\* the end of `with self.lock`
UpdateMessages(t) ==
    /\ pthreads[t].at = "update"
    /\ LET appended == Append(pthreads[t].messages, MessageOf(t))
           messages == IF Len(appended) > MAX_MESSAGES_PER_SESSION
                       THEN LastN(appended, MAX_MESSAGES_PER_SESSION)
                       ELSE appended
       IN  ps_table' = IF ps_table[PsSession] = Absent THEN ps_table
                       ELSE [ps_table EXCEPT ![PsSession] =
                                [@ EXCEPT !.messages = messages, !.last_accessed = 0]]
    /\ ps_lock' = 0
    /\ pthreads' = [pthreads EXCEPT ![t] = [@ EXCEPT !.at = "done"]]
    /\ UNCHANGED ps_start
    /\ UNCHANGED otherPs

\* clear_session: one UPDATE, without the lock
ClearSessionBy(t) ==
    /\ pthreads[t].at = "idle"
    /\ ps_table' = PersistentSessionStorage_clear_session(ps_table, PsSession, 0)
    /\ pthreads' = [pthreads EXCEPT ![t] = [@ EXCEPT !.at = "done", !.op = "clear"]]
    /\ UNCHANGED <<ps_lock, ps_start>>
    /\ UNCHANGED otherPs

\* get_history: SELECT, UPDATE last_accessed, without the lock
GetHistoryBy(t) ==
    /\ pthreads[t].at = "idle"
    /\ LET got == PersistentSessionStorage_get_history(ps_table, PsSession, 0)
       IN  /\ ps_table' = got.table
           /\ pthreads' = [pthreads EXCEPT ![t] =
                            [@ EXCEPT !.at = "done", !.op = "get", !.result = got.result]]
    /\ UNCHANGED <<ps_lock, ps_start>>
    /\ UNCHANGED otherPs

InitPersistent ==
    /\ ps_table \in StartTables
    /\ ps_start = ps_table
    /\ ps_lock = 0
    /\ pthreads = [t \in PsThreads |-> IdlePsThread]

InitPs == IdleWorkflow /\ InitMonitor /\ IdleLimiter /\ IdleGrader /\ IdleSessions
          /\ IdleIngest /\ IdleThreads /\ IdleSearch /\ IdleWorker /\ IdleKeyword
          /\ InitPersistent /\ IdleMonitorThreads
NextPs ==
    \/ \E t \in PsThreads : BeginAddMessage(t)
    \/ \E t \in PsThreads : SelectMessages(t)
    \/ \E t \in PsThreads : CreateMissing(t)
    \/ \E t \in PsThreads : UpdateMessages(t)
    \/ \E t \in PsThreads : ClearSessionBy(t)
    \/ \E t \in PsThreads : GetHistoryBy(t)

SpecPersistent == InitPs /\ [][NextPs]_vars

(* ---------------------------------------------------------------------- *)
(* Threads on the health monitor                                           *)
(* ---------------------------------------------------------------------- *)
otherMt == <<wfVars, rlVars, grVars, ssVars, ixVars, thVars, hsVars, wkVars, kwVars, psVars>>
\* the monitor's bookkeeping of the sequential runs
monRest == <<probe_due, openedAt, failuresSinceSuccess, lastOp>>

\* threading.Lock taken by anyone while it is held
lock_free_always(holder) == TRUE
\* `with self.lock`: the lock can be taken when no thread holds it
lock_free(holder) == holder = "free"

\* thread t enters a method and goes to its first statement
EnterMonitor(t, first) ==
    /\ mthreads[t].at = "idle"
    /\ lock_free(mon_lock)
    /\ mon_lock' = t
    /\ mthreads' = [mthreads EXCEPT ![t] = [@ EXCEPT !.at = first]]
    /\ UNCHANGED <<monitor, now, monRest>>
    /\ UNCHANGED otherMt

\* thread t leaves the method it is in
LeaveMonitor(t) ==
    /\ mon_lock' = "free"
    /\ mthreads' = [mthreads EXCEPT ![t] = [@ EXCEPT !.at = "idle"]]

\* a step of thread t inside a method, to the statement `next`
StepMonitor(t, next) ==
    /\ mthreads' = [mthreads EXCEPT ![t] = [@ EXCEPT !.at = next]]
    /\ UNCHANGED mon_lock

\* record_failure, from _check_loop or record_ollama_failure
BeginRecordFailure(t) ==
    /\ monitor.consecutive_failures < MaxFailures
    /\ EnterMonitor(t, "count")

\* self.consecutive_failures += 1
CountFailure(t) ==
    /\ mthreads[t].at = "count"
    /\ monitor' = [monitor EXCEPT !.consecutive_failures = @ + 1]
    /\ StepMonitor(t, "failed")
    /\ UNCHANGED <<now, monRest>>
    /\ UNCHANGED otherMt

\* the if/elif of record_failure on the new count
SetFailureStatus(t) ==
    /\ mthreads[t].at = "failed"
    /\ IF monitor.consecutive_failures >= CIRCUIT_BREAKER_THRESHOLD
       THEN /\ monitor' = [monitor EXCEPT !.status = "unavailable"]
            /\ StepMonitor(t, "stamp")
       ELSE IF monitor.consecutive_failures > 1
       THEN /\ monitor' = [monitor EXCEPT !.status = "degraded"]
            /\ LeaveMonitor(t)
       ELSE /\ monitor' = monitor
            /\ LeaveMonitor(t)
    /\ UNCHANGED <<now, monRest>>
    /\ UNCHANGED otherMt

\* self.circuit_open_at = time.time()
StampOpen(t) ==
    /\ mthreads[t].at = "stamp"
    /\ monitor' = [monitor EXCEPT !.circuit_open_at = now]
    /\ LeaveMonitor(t)
    /\ UNCHANGED <<now, monRest>>
    /\ UNCHANGED otherMt

\* record_success, from _check_loop or record_ollama_success
BeginRecordSuccess(t) ==
    /\ t \in MonThreads
    /\ EnterMonitor(t, "reset")

\* self.consecutive_failures = 0
ResetFailures(t) ==
    /\ mthreads[t].at = "reset"
    /\ monitor' = [monitor EXCEPT !.consecutive_failures = 0]
    /\ StepMonitor(t, "succeeded")
    /\ UNCHANGED <<now, monRest>>
    /\ UNCHANGED otherMt

\* the if/elif of record_success on the status
SetSuccessStatus(t) ==
    /\ mthreads[t].at = "succeeded"
    /\ IF monitor.status = "unavailable"
       THEN /\ monitor' = [monitor EXCEPT !.status = "healthy"]
            /\ StepMonitor(t, "unstamp")
       ELSE IF monitor.status = "degraded"
       THEN /\ monitor' = [monitor EXCEPT !.status = "healthy"]
            /\ LeaveMonitor(t)
       ELSE /\ monitor' = monitor
            /\ LeaveMonitor(t)
    /\ UNCHANGED <<now, monRest>>
    /\ UNCHANGED otherMt

\* self.circuit_open_at = None
ClearStamp(t) ==
    /\ mthreads[t].at = "unstamp"
    /\ monitor' = [monitor EXCEPT !.circuit_open_at = NoTime]
    /\ LeaveMonitor(t)
    /\ UNCHANGED <<now, monRest>>
    /\ UNCHANGED otherMt

\* is_circuit_open, from is_ollama_available in a request thread
BeginIsCircuitOpen(t) ==
    /\ t = "request"
    /\ EnterMonitor(t, "test")

\* if self.status == UNAVAILABLE: read self.circuit_open_at, else return False
TestStatus(t) ==
    /\ mthreads[t].at = "test"
    /\ IF monitor.status = "unavailable"
       THEN /\ mthreads' = [mthreads EXCEPT ![t] =
                    [@ EXCEPT !.at = "elapsed", !.stamp = monitor.circuit_open_at]]
            /\ UNCHANGED mon_lock
       ELSE /\ mthreads' = [mthreads EXCEPT ![t] =
                    [at |-> "idle", stamp |-> NoTime, open |-> FALSE]]
            /\ mon_lock' = "free"
    /\ UNCHANGED <<monitor, now, monRest>>
    /\ UNCHANGED otherMt

\* elapsed = time.time() - circuit_open_at; return not (elapsed > RESET)
ComputeElapsed(t) ==
    /\ mthreads[t].at = "elapsed"
    /\ mthreads' = [mthreads EXCEPT ![t] =
            [at |-> "idle", stamp |-> mthreads[t].stamp,
             open |-> ~(now - mthreads[t].stamp > CIRCUIT_BREAKER_RESET)]]
    /\ mon_lock' = "free"
    /\ UNCHANGED <<monitor, now, monRest>>
    /\ UNCHANGED otherMt

\* HEALTH_CHECK_INTERVAL seconds pass
PassTime ==
    /\ now + HEALTH_CHECK_INTERVAL <= MaxNow
    /\ now' = now + HEALTH_CHECK_INTERVAL
    /\ UNCHANGED <<monitor, monRest, mon_lock, mthreads>>
    /\ UNCHANGED otherMt

InitMt == IdleWorkflow /\ InitMonitor /\ IdleLimiter /\ IdleGrader /\ IdleSessions
          /\ IdleIngest /\ IdleThreads /\ IdleSearch /\ IdleWorker /\ IdleKeyword
          /\ IdlePersistent /\ IdleMonitorThreads
NextMt ==
    \/ \E t \in MonThreads : BeginRecordFailure(t)
    \/ \E t \in MonThreads : CountFailure(t)
    \/ \E t \in MonThreads : SetFailureStatus(t)
    \/ \E t \in MonThreads : StampOpen(t)
    \/ \E t \in MonThreads : BeginRecordSuccess(t)
    \/ \E t \in MonThreads : ResetFailures(t)
    \/ \E t \in MonThreads : SetSuccessStatus(t)
    \/ \E t \in MonThreads : ClearStamp(t)
    \/ \E t \in MonThreads : BeginIsCircuitOpen(t)
    \/ \E t \in MonThreads : TestStatus(t)
    \/ \E t \in MonThreads : ComputeElapsed(t)
    \/ PassTime

SpecMonitorThreads == InitMt /\ [][NextMt]_vars

(* ---------------------------------------------------------------------- *)
(* Properties                                                              *)
(* ---------------------------------------------------------------------- *)
Result == state.generation_result

\* the elements of a sequence
Elems(seq) == {seq[i] : i \in 1..Len(seq)}

\* C1: one run executes the Retrieve node at most max_attempts + 1 times and
\* always gets to Generate and the end state (it is never cut off).
C1_RetrieveBound == Len(searched) <= max_attempts + 1 /\ pc # "aborted"

\* C2: when every retrieval returns no document and every rewrite request
\* yields a new query, the run rewrites at most 3 times, is not cut off, and
\* ends with the fixed "couldn't find" answer and no sources after 3 rewrites.
C2_ZeroDocuments ==
    (allEmpty /\ allRewritten) =>
        /\ transformCalls <= max_attempts
        /\ Len(searched) <= max_attempts
        /\ pc # "aborted"
        /\ pc = "done" => /\ Result.answer = CouldntFind
                          /\ Result.sources = <<>>
                          /\ transformCalls = max_attempts
                          /\ Result.attempts = max_attempts

\* C2 witness: a finished run of three rewrites that never retrieved a document
C2_Witness ==
    /\ pc = "done" /\ allEmpty /\ allRewritten
    /\ Len(searched) = max_attempts /\ state.attempts = max_attempts
    /\ Result.answer = CouldntFind

\* how many documents a grading reply decides on
DecisionCount(reply) ==
    CASE reply.kind = "json"   -> Len(reply.list)
      [] reply.kind = "doc"    -> Cardinality({reply.pairs[i][1] : i \in 1..Len(reply.pairs)})
      [] reply.kind = "tokens" -> Len(reply.toks)
      [] OTHER                 -> 0

\* the model call failed, or the reply has no decisions, or it decides on a
\* number of documents that is not the batch size n
BadReply(reply, n) ==
    \/ reply.kind \in {"error", "text"}
    \/ /\ DecisionCount(reply) # n
       /\ reply.kind = "tokens" => Len(SelectAlone(reply.toks)) # n

\* C3: every document of a batch whose model call failed, whose reply has no
\* decisions, or whose reply decides on another number of documents than the
\* batch holds, is in the graded output.
C3_BadBatchKept ==
    gPhase = "returned" =>
        \A b \in 1..NumBatches(Len(gDocs)) :
            BadReply(gReplies[b], Len(BatchOf(gDocs, b)))
                => Elems(BatchOf(gDocs, b)) \subseteq Elems(gOut)

\* C4: no grading prompt is sent to the model runtime while the circuit
\* breaker is open.
C4_NoGradingWhileOpen == ~gradedWhileOpen

\* C5 as stated: when the model call of Generate fails with at least one
\* candidate, the run ends with the candidates as sources and an empty answer.
C5_EmptyAnswer ==
    genFailed =>
        /\ pc = "done"
        /\ Result.sources = docs_to_use(state)
        /\ Result.answer = ""

\* C5 amended: when the model call of Generate fails with at least one
\* candidate, the run ends with the documents used as context (the graded
\* ones, or all retrieved ones when none was graded relevant) as sources and
\* the error text as answer.
C5_ErrorAnswer ==
    genFailed =>
        /\ pc = "done"
        /\ Result.sources = docs_to_use(state)
        /\ Result.sources # <<>>
        /\ Result.answer = ErrorAnswer

\* C5 witness: a run whose generation failed with retrieved documents
C5_Witness == pc = "done" /\ genFailed /\ state.documents # <<>>

\* C6: the status is UNAVAILABLE exactly when at least 5 failures were
\* recorded since the last recorded success.
C6_OpenIffThreshold ==
    (monitor.status = "unavailable") <=> (failuresSinceSuccess >= CIRCUIT_BREAKER_THRESHOLD)

\* C6 witness: the fifth failure in a row has just opened the breaker
C6_Witness ==
    /\ monitor.status = "unavailable"
    /\ failuresSinceSuccess = CIRCUIT_BREAKER_THRESHOLD
    /\ lastOp.op = "record_failure" /\ lastOp.was = "degraded"

\* C7: after a recorded success, from any status, consecutive_failures is 0,
\* the status is HEALTHY and is_circuit_open returns false.
C7_SuccessCloses ==
    lastOp.op = "record_success" =>
        /\ monitor.consecutive_failures = 0
        /\ monitor.status = "healthy"
        /\ ~is_circuit_open(monitor, now)

\* C7 witness: a success was recorded while the breaker was open
C7_Witness == lastOp.op = "record_success" /\ lastOp.was = "unavailable"

\* C8: while the breaker is open, is_circuit_open returns true until the
\* cool-down period counted from the moment the breaker opened has elapsed,
\* and false after that.
C8_CoolDownFromOpening ==
    openedAt # NoTime =>
        (is_circuit_open(monitor, now) <=> ~(now - openedAt > CIRCUIT_BREAKER_RESET))

\* C9: of the observed client and endpoint, at most N requests are admitted
\* in any window (t - W, t], and a request is rejected exactly when N
\* admitted requests are already inside its window.
C9_WindowBound ==
    /\ \A i \in 1..Len(admitted) :
            Len(After(SubSeq(admitted, 1, i), admitted[i] - ObsWindow)) <= ObsLimit
    /\ lastReq.status = 429 => lastReq.before >= ObsLimit
    /\ lastReq.status = 200 => lastReq.before < ObsLimit

\* C9 witness: the (N+1)-th request inside a window was rejected
C9_Witness == lastReq.status = 429 /\ lastReq.before = ObsLimit /\ ObsLimit = 2

\* C10: the decisions on the observed client and endpoint are those of a
\* store that never saw any other client or endpoint, and the timestamps
\* counted for the pair are timestamps of its admitted requests only.
C10_Independent ==
    /\ lastReq.status = lastReq.shadow_status
    /\ requests[obs[1]][obs[2]] = shadow[obs[1]][obs[2]]
    /\ Elems(requests[obs[1]][obs[2]]) \subseteq Elems(admitted)

\* C10 witness: a request of the observed pair was rejected while other
\* clients and endpoints have admitted requests on record
C10_Witness ==
    /\ lastReq.status = 429
    /\ \A key \in LimitedKeys : requests[key[1]][key[2]] # <<>>

\* C11: after any sequence of create_session, add_message, get_history,
\* clear_session and cleanup calls, on the persistent store and on the
\* in-memory store, the stored history of every session has at most 10
\* messages
C11_HistoryBound ==
    \A s \in SessionIds :
        /\ Len(History(db, s)) <= 10
        /\ Len(History(mem, s)) <= 10

\* C11 witness: a session of the persistent store that received more than
\* ten messages holds ten
C11_Witness ==
    \E s \in SessionIds :
        /\ backend = "sqlite"
        /\ sent[s] > 10
        /\ Len(History(db, s)) = 10

\* C12: add_message on a session whose history is h leaves the history equal
\* to the last N elements of (h followed by the new message), in the
\* original order, N being the cap of the store: the newest message is
\* present and only the oldest are evicted; on a session id that does not
\* exist it creates the session with exactly that one message
C12_AddMessage ==
    [][\A s \in SessionIds :
        AddMessageTo(s) =>
            LET h == History(Store, s)
                new == [role |-> RoleOf(sent'[s]), content |-> sent'[s]]
                n == Min(Len(h) + 1, Cap)
                after == History(Store', s)
            IN  /\ Store'[s] # Absent
                /\ Len(after) = n
                /\ after[n] = new
                /\ \A i \in 1..(n - 1) : after[i] = h[Len(h) - (n - 1) + i]
                /\ Store[s] = Absent => after = <<new>>]_vars

\* C12 witness: a full history has taken one more message: it holds the
\* messages from the second one sent to the newest, in order
C12_Witness ==
    \E s \in SessionIds :
        /\ sent[s] = Cap + 1
        /\ Len(History(Store, s)) = Cap
        /\ \A i \in 1..Cap : History(Store, s)[i].content = i + 1

\* C13: a cleanup sweep removes a session only if the time since its last
\* access exceeds the TTL, and removes every such session; add_message and
\* get_history set the last access to the time of the call and no call
\* moves it back, so a session read or written less than one TTL ago is
\* never removed by a sweep
C13_Sweep ==
    [][/\ Cleanup =>
            \A s \in SessionIds :
                Store[s] # Absent =>
                    ((Store'[s] = Absent) <=> (sclock - LastAccess(Store, s) > TTL))
       /\ \A s \in SessionIds :
            /\ AddMessageTo(s) => LastAccess(Store', s) = sclock
            /\ (GetHistoryOf(s) /\ Store[s] # Absent) => LastAccess(Store', s) = sclock
            /\ (Store[s] # Absent /\ Store'[s] # Absent)
                    => LastAccess(Store', s) >= LastAccess(Store, s)
      ]_vars

\* C13 witness: on the persistent store a session that received messages
\* has been reaped, while another one, whose last access is exactly one TTL
\* old, is still there
C13_Witness ==
    \E a, b \in SessionIds :
        /\ backend = "sqlite"
        /\ db[a] = Absent /\ sent[a] > 0
        /\ db[b] # Absent /\ sent[b] > 0
        /\ sclock - db[b].last_accessed = SESSION_TTL_SECONDS

\* the content the pipeline reads from the file f at path p
ContentOf(p, f) == get_file_content(f, splitext(p))

\* C14: the pipeline on a path whose catalog row already has the hash of
\* the current content changes nothing (the catalog row with its
\* last_indexed and processing_status, the keyword index, the vector index,
\* both worker queues) and reports nothing indexed
C14_SameHashNoOp ==
    [][\A p \in IxPaths : \A f \in Files :
        (/\ ContentOf(p, f) # <<>>
         /\ catalog[p] # Absent
         /\ catalog[p].hash = calculate_hash(ContentOf(p, f))
         /\ OnModifiedOf(p, f))
        => /\ UNCHANGED <<catalog, bm25, chroma, embedding_queue, summary_queue>>
           /\ files_indexed' = files_indexed]_vars

\* C14 witness: the pipeline has run on a path whose row had the hash of
\* the content
C14_Witness == "same" \in seen /\ files_indexed > 0

\* C15: ingesting a plain-text or code file larger than 10 MiB writes no
\* state: no catalog row, no keyword entry, no embedding job
C15_TooLargeWritesNothing ==
    [][\A p \in IxPaths : \A f \in Files :
        (/\ OnModifiedOf(p, f)
         /\ splitext(p) \in TextExtensions
         /\ f.size > 10 * 1024 * 1024)
        => UNCHANGED <<catalog, bm25, embedding_queue>>]_vars

\* the positions of the keyword index that are of a path
EntriesOf(kw, p) == {i \in DOMAIN kw : kw[i].source = p}

\* C16: after any sequence of completed ingestions and deletions the
\* keyword index holds, for every catalog path whose text was chunked,
\* exactly one entry per chunk ordinal 0..n-1 of the current content, and
\* no entry for a path without a catalog row
C16_KeywordMatchesCatalog ==
    \A p \in IxPaths :
        IF catalog[p] = Absent
        THEN EntriesOf(bm25, p) = {}
        ELSE LET n == Len(split_text(db_get_file_content(catalog, p)))
             IN  /\ Cardinality(EntriesOf(bm25, p)) = n
                 /\ {bm25[i].chunk_index : i \in EntriesOf(bm25, p)} = 0..(n - 1)

\* the records of the vector index that are of a path
RecordsOf(vec, p) == {r \in vec : r.source = p}

C18_EmbeddedBeforeSummary ==
    \A p \in IxPaths :
        (/\ catalog[p] # Absent
         /\ catalog[p].processing_status \in {"pending_summary", "completed"})
        => RecordsOf(chroma, p) # {}

\* C19: every catalog row with status completed has a non-empty,
\* non-sentinel summary, also when the model call failed or returned empty
C19_CompletedHasSummary ==
    \A p \in IxPaths :
        (catalog[p] # Absent /\ catalog[p].processing_status = "completed")
        => /\ catalog[p].summary # <<>>
           /\ ~looks_like_placeholder(catalog[p].summary)

\* C20: when the handling of a delete of p returns, p has no catalog row,
\* no vector record and no keyword entry, whichever store raised an error
C20_DeleteRemovesAll ==
    [][\A p \in IxPaths : \A fault \in {"none", "chroma", "catalog"} :
        OnDeletedOf(p, fault)
        => /\ catalog'[p] = Absent
           /\ RecordsOf(chroma', p) = {}
           /\ EntriesOf(bm25', p) = {}]_vars

\* a catalog row without its last_indexed
RowModuloTime(row) ==
    [hash |-> row.hash, content_text |-> row.content_text, summary |-> row.summary,
     processing_status |-> row.processing_status]

\* the chunk ordinals of the keyword entries of a path, in index order
OrdinalsOf(kw, p) ==
    LET own == SelectSeq(kw, LAMBDA e : e.source = p)
    IN  [i \in DOMAIN own |-> own[i].chunk_index]

\* the first ingestion of the file f at p: the pipeline on the empty stores
FirstIngestion(p, f) == index_file_pipeline(f, p, NoCatalog, <<>>, {}, 0, 0)

\* C21: a deletion of p leaves no row of p, and ingesting p when it has no
\* row (after a deletion as well as the first time) gives the row of the
\* first ingestion of the same content except for last_indexed (same hash,
\* content, summary and processing_status) and keyword entries with the
\* same chunk ordinals
C21_DeleteThenReingest ==
    [][\A p \in IxPaths :
        /\ OnDeletedOf(p, "none")
            => catalog'[p] = Absent /\ OrdinalsOf(bm25', p) = <<>>
        /\ \A f \in Files :
            (/\ catalog[p] = Absent
             /\ ContentOf(p, f) # <<>>
             /\ OnModifiedOf(p, f))
            => /\ catalog'[p] # Absent
               /\ RowModuloTime(catalog'[p])
                    = RowModuloTime(FirstIngestion(p, f).catalog[p])
               /\ OrdinalsOf(bm25', p) = OrdinalsOf(FirstIngestion(p, f).bm25, p)]_vars

\* C21 witness: p was ingested, deleted and ingested again with the same
\* content: two jobs with the same chunks, the row written by the second
\* ingestion
C21_Witness ==
    \E p \in IxPaths :
        /\ catalog[p] # Absent /\ catalog[p].last_indexed = 2
        /\ \E j1, j2 \in embedding_queue :
            /\ j1.file_path = p /\ j2.file_path = p
            /\ j1.seq # j2.seq /\ j1.chunks = j2.chunks
            /\ split_text(db_get_file_content(catalog, p)) = j2.chunks

\* C24: in every reachable state, a search that hits a file with no
\* summary in the index metadata and none, or only a placeholder, in the
\* catalog returns the summary "[Summary pending]" for it and leaves a
\* summarization job of the path in the queue
C24_PendingSummary ==
    \A p \in IxPaths : \A read_fails \in BOOLEAN :
        (/\ InKeywordIndex(bm25, p)
         /\ KeywordHit(bm25, p).summary = <<>>
         /\ looks_like_placeholder(get_summary(catalog, p)))
        => LET r == resolve_summary_for_file(p, KeywordHit(bm25, p).summary,
                        catalog, summary_queue, summary_seq, read_fails)
           IN  /\ r.result = SummaryPending
               /\ \E j \in r.summary_queue : j.file_path = p

\* C26: whenever the transformer returns no rewrite (empty reply, reply
\* equal to the original query, or model error), the next node is Generate,
\* on every attempt of the run: the run never goes back to Retrieve after a
\* failed rewrite
C26_FailedRewriteGenerates ==
    [][(/\ pc = "transform"
        /\ TransformerCalled(state)
        /\ state'.attempts = state.attempts
        /\ Transform)
        => pc' = "generate"]_vars

C28_SummaryAfterBatch ==
    [][(/\ Len(batch_items) = 1
        /\ summary_queue # {}
        /\ WorkerEmbed)
        => /\ Len(batch_items) <= worker_batch_size
           /\ PopMin(summary_queue) \notin summary_queue']_vars

\* the jobs of a path that wait in the embedding queue or in the batch
JobsOf(p) ==
    {j \in embedding_queue : j.file_path = p}
        \cup {batch_items[i] : i \in {k \in DOMAIN batch_items : batch_items[k].file_path = p}}

\* C29: the worker processes the embedding job of an indexed path with
\* success: the vector records of the path are replaced by the chunks of
\* the job, the status of the path becomes pending_summary and exactly one
\* summarization item of the path is enqueued
C29_EmbeddingJobDone ==
    [][(/\ batch_items # <<>>
        /\ catalog[Head(batch_items).file_path] # Absent
        /\ WorkerEmbed)
        => LET job == Head(batch_items)
           IN  /\ {r.document : r \in RecordsOf(chroma', job.file_path)}
                    = {job.chunks[i] : i \in DOMAIN job.chunks}
               /\ catalog'[job.file_path].processing_status = "pending_summary"
               /\ \E j \in summary_queue' \ summary_queue :
                    /\ j.file_path = job.file_path
                    /\ summary_queue' = summary_queue \cup {j}]_vars

\* C30: a file whose embedding failed stays in pending_embedding and is
\* embedded later: in every reachable state a path in pending_embedding
\* with text to embed and no vector record has a job waiting (the retry of
\* the worker), or the next ingestion of the same content enqueues one
C30_FailedEmbeddingRetried ==
    \A p \in IxPaths : \A f \in Files :
        (/\ catalog[p] # Absent
         /\ catalog[p].processing_status = "pending_embedding"
         /\ RecordsOf(chroma, p) = {}
         /\ calculate_hash(ContentOf(p, f)) = catalog[p].hash
         /\ split_text(ContentOf(p, f)) # <<>>)
        => \/ JobsOf(p) # {}
           \/ \E j \in index_file_pipeline(f, p, catalog, bm25, embedding_queue,
                                           embedding_seq, nstores + 1).embedding_queue :
                j.file_path = p

\* the sources of a result list
SourcesOf(list) == [i \in 1..Len(list) |-> list[i].source]
\* no source twice, scores descending
OnePerSourceSorted(list) ==
    /\ \A i, j \in 1..Len(list) : i # j => list[i].source # list[j].source
    /\ \A i \in 1..Len(list) : \A j \in i..Len(list) : list[i].score >= list[j].score

\* C23 (as stated): for every k, hybrid_search returns at most k results, at
\* most one per source, sorted by score in descending order, whatever the
\* two branches return.
C23_AtMostKUniqueSorted ==
    hs_phase = "returned" => Len(hs_out) <= hs_k /\ OnePerSourceSorted(hs_out)

\* C23 (amended): the same for every k >= 0.
C23_AtMostKUniqueSortedNonNegative ==
    (hs_phase = "returned" /\ hs_k >= 0)
        => Len(hs_out) <= hs_k /\ OnePerSourceSorted(hs_out)

\* a call whose branches returned two chunks of one source and a chunk of
\* another, cut to k = 1
C23_Witness ==
    /\ hs_phase = "returned" /\ hs_k = 1 /\ Len(hs_out) = 1
    /\ \E i, j \in 1..Len(hs_results) : i # j /\ hs_results[i].source = hs_results[j].source
    /\ \E i, j \in 1..Len(hs_results) : hs_results[i].source # hs_results[j].source

\* C22: at no time are two executions of the ingestion pipeline for the
\* same path in progress, whatever the interleaving of the watcher's
\* create/modify events and of a directory scan on another thread.
C22_OnePipelinePerPath ==
    \A t1, t2 \in ThreadIds :
        (t1 # t2 /\ InPipeline(t1) /\ InPipeline(t2)) => tpc[t1].path # tpc[t2].path

\* C25: items leave the embedding queue in ascending (priority, sequence
\* number) order and jobs of one priority leave in the order they were
\* enqueued: a job about to be put has a larger sequence number than every
\* job of its priority that was put before it (queued, or in the batch
\* that the worker took).
C25_PutOrderIsSeqOrder ==
    \A t \in ThreadIds : tpc[t].at = "put" =>
        \A k \in embedding_queue \cup Elems(batch_items) :
            k.priority = tpc[t].job.priority => k.seq < tpc[t].job.seq

\* C31 (as stated): once pause() has returned, no item leaves either queue
\* until resume() is called (a batch or item in flight was taken from its
\* queue before).
C31_NoRemovalWhilePaused ==
    [][paused => /\ embedding_queue \subseteq embedding_queue'
                 /\ summary_queue \subseteq summary_queue']_vars

\* C31 (amended): a thread that makes its pause check while the worker is
\* paused and running waits; a waiting thread stays waiting until resume()
\* wakes it; items leave a queue only in the step after a passed check; and
\* resume() leaves no thread in the wait.
C31_PausedWorkerWaits ==
    [][\A t \in WorkerThreads :
        /\ (paused /\ running /\ wthreads[t].at \in {"check", "woken"} /\ CheckPause(t))
              => wthreads'[t].at = "waiting"
        /\ wthreads[t].at = "waiting"
              => \/ wthreads'[t].at = "waiting"
                 \/ wthreads'[t].at = "woken" /\ ~paused'
        /\ (~(embedding_queue \subseteq embedding_queue')
              \/ ~(summary_queue \subseteq summary_queue'))
              => \E u \in WorkerThreads : wthreads[u].at = "pick" /\ Pick(u)
        /\ (wthreads[t].at = "waiting" /\ Resume) => wthreads'[t].at = "woken"]_vars

\* a thread woken by resume() with work queued
C31_Witness ==
    \E t \in WorkerThreads :
        wthreads[t].at = "woken" /\ ~paused /\ running /\ embedding_queue # {}

\* C32: after stop() the worker thread always leaves its loop: with the
\* running flag off no thread is blocked in the pause wait.
C32_StoppedWorkerNotBlocked ==
    \A t \in WorkerThreads : wthreads[t].at = "waiting" => running

\* C33: at most one worker thread is executing the worker loop at any time
\* (a thread blocked in the pause wait is not counted).
C33_OneWorkerThread ==
    Cardinality({t \in WorkerThreads :
                    wthreads[t].at \notin {"new", "done", "waiting"}}) <= 1

\* C34: under every interleaving the keyword corpus and its metadata have
\* equal length with entry i of the metadata describing entry i of the
\* corpus (whenever no thread is inside a change of the pair), and a search
\* never reads a corpus entry together with the metadata of another chunk.
C34_CorpusMatchesMetadata ==
    /\ (\A t \in KwThreads : kthreads[t].at = "idle") =>
          /\ Len(bm25_corpus) = Len(bm25_metadata)
          /\ \A i \in 1..Len(bm25_corpus) : Describes(bm25_metadata[i], bm25_corpus[i])
    /\ "content" \in DOMAIN kw_hit => Describes(kw_hit.metadata, kw_hit.content)

\* C35: the status of a path stays pending_embedding until the worker has
\* completed its embedding job: only the worker's step on a job of the
\* path moves a row out of pending_embedding.
C35_PendingUntilEmbedded ==
    [][\A p \in IxPaths :
        (/\ catalog[p] # Absent /\ catalog'[p] # Absent
         /\ catalog[p].processing_status = "pending_embedding"
         /\ catalog'[p].processing_status # "pending_embedding")
        => /\ batch_items # <<>>
           /\ Head(batch_items).file_path = p
           /\ WorkerEmbed]_vars

\* two versions of a file with different chunk counts
Versions == { [size |-> 240, text |-> <<"y", "z">>], [size |-> 120, text |-> <<"w">>] }

\* the worker's loop over a collected batch
RECURSIVE EmbedAll(_, _)
EmbedAll(items, s) ==
    IF items = <<>> THEN s
    ELSE EmbedAll(Tail(items),
                  process_embedding_item(Head(items), s.catalog, s.chroma,
                                         s.summary_queue, s.summary_seq))

\* C36: when a path is ingested twice with different contents before the
\* worker has processed the first job, then after the worker has emptied
\* the embedding queue the vector records of the path are exactly the
\* chunks (ordinals 0..n-1) of the content in the catalog.
C36_VectorsOfLatestVersion ==
    \A p \in IxPaths : \A f1, f2 \in Versions :
        (f1 # f2 /\ batch_items = <<>> /\ embedding_queue = {}) =>
            LET s1 == index_file_pipeline(f1, p, catalog, bm25, embedding_queue,
                                          embedding_seq, nstores + 1)
                s2 == index_file_pipeline(f2, p, s1.catalog, s1.bm25, s1.embedding_queue,
                                          s1.embedding_seq, nstores + 2)
                b  == collect_batch(s2.embedding_queue, <<>>)
                e  == EmbedAll(b.batch_items,
                               [catalog |-> s2.catalog, chroma |-> chroma,
                                summary_queue |-> summary_queue,
                                summary_seq |-> summary_seq])
                chunks == split_text(db_get_file_content(e.catalog, p))
            IN  (s1.result /\ s2.result) =>
                    {<<r.chunk_index, r.document>> : r \in RecordsOf(e.chroma, p)}
                        = {<<i - 1, chunks[i]>> : i \in DOMAIN chunks}

\* C37: after the last create/modify notification of a path has been
\* handled (no event queued, no thread in the pipeline), the catalog row of
\* the path holds the hash of the file's latest content.
C37_LatestHashAfterLastEvent ==
    (events = <<>> /\ \A t \in ThreadIds : tpc[t] = IdleThread) =>
        \A p \in IxPaths :
            (disk[p] # NoFile /\ ContentOf(p, disk[p]) # <<>>) =>
                /\ catalog[p] # Absent
                /\ catalog[p].hash = calculate_hash(ContentOf(p, disk[p]))

\* the candidates of a source in what the two branches returned
CandidatesOf(p) == {hs_results[i] : i \in {j \in DOMAIN hs_results : hs_results[j].source = p}}
\* the largest element of a non-empty set of numbers
MaxOf(S) == CHOOSE x \in S : \A y \in S : y <= x
\* a non-generic word of the query occurs in the file name or in the summary
MainKeywordIn(words) ==
    \E i \in DOMAIN hs_query : hs_query[i] \notin generic_words /\ hs_query[i] \in words
WordsOf(summary) == {summary[i] : i \in DOMAIN summary}

CallOrders ==
    {o \in [PsThreads -> PsThreads] : \A i, j \in PsThreads : o[i] = o[j] => i = j}

\* the calls made one after another in the order o, from call i on, starting
\* with `table`, end with the stored table and return what the threads got
RECURSIVE SequentialRun(_, _, _)
SequentialRun(o, i, table) ==
    IF i > MaxPsThreads THEN table = ps_table
    ELSE LET t == o[i]
         IN  CASE pthreads[t].op = "add" ->
                    SequentialRun(o, i + 1, PersistentSessionStorage_add_message(
                                                table, PsSession, RoleOf(t), t, 0))
               [] pthreads[t].op = "clear" ->
                    SequentialRun(o, i + 1, PersistentSessionStorage_clear_session(
                                                table, PsSession, 0))
               [] OTHER ->
                    LET got == PersistentSessionStorage_get_history(table, PsSession, 0)
                    IN  /\ got.result = pthreads[t].result
                        /\ SequentialRun(o, i + 1, got.table)

\* C39: when the concurrent calls of add_message, clear_session and
\* get_history on one session have all returned, the stored history and the
\* histories returned are those of the calls made in some sequential order.
C39_EquivalentToSequential ==
    (\A t \in PsThreads : pthreads[t].at = "done") =>
        \E o \in CallOrders : SequentialRun(o, 1, ps_start)

\* C40: whenever a thread finds the monitor (no thread is inside one of its
\* methods), status is healthy with 0 or 1 consecutive failures, degraded
\* with 2 to 4, and an unavailable monitor holds the time the breaker
\* opened; is_circuit_open never computes its elapsed time from None.
C40_StatusMatchesFailures ==
    /\ mon_lock = "free" =>
        /\ monitor.consecutive_failures \in {0, 1} => monitor.status = "healthy"
        /\ monitor.consecutive_failures \in 2..(CIRCUIT_BREAKER_THRESHOLD - 1)
                => monitor.status = "degraded"
        /\ monitor.status = "unavailable" => monitor.circuit_open_at # NoTime
    /\ \A t \in MonThreads : mthreads[t].at = "elapsed" => mthreads[t].stamp # NoTime

\* a request thread computes the elapsed time of a breaker that was opened,
\* closed by a success and opened again
C40_Witness ==
    /\ mthreads["request"].at = "elapsed"
    /\ mthreads["request"].stamp > 0
    /\ monitor.status = "unavailable"
    /\ monitor.consecutive_failures = CIRCUIT_BREAKER_THRESHOLD

====
